---------------------------- MODULE Spec2Model ----------------------------
(***************************************************************************)
(* A model of the Stitch design-token extraction pipeline                  *)
(* (StitchClient.extractDesignContext and the extractors it composes).     *)
(*                                                                         *)
(* Text.  A JavaScript string is modelled as a sequence of symbols.  A     *)
(* symbol is either one character ("a", "#", ";", " ") or one keyword of   *)
(* the regular expressions of the source written as a single symbol        *)
(* ("margin", "font-family", "<style", "tailwind.config").  The single     *)
(* characters of the alphabet never spell a keyword, so two strings are    *)
(* equal exactly when their symbol sequences are equal.  Character classes *)
(* (\s, \w, [0-9a-fA-F], [^;]) are sets of symbols; every regular          *)
(* expression of the source is translated into a matcher over symbol       *)
(* sequences that keeps its greedy/lazy and leftmost-match behaviour.      *)
(***************************************************************************)
EXTENDS Integers, Sequences, FiniteSets, TLC

(***************************************************************************)
(* The alphabet and the character classes.                                 *)
(***************************************************************************)

\* \s of the regular expressions: blank and newline.
Space == {" ", "\n"}

\* [0-9a-fA-F] restricted to the characters of the alphabet.
HexDigit ==
  {"a", "b", "A", "B", "0", "1", "2", "3", "4", "5", "6", "7", "8", "9"}

\* Keywords made of word characters only (each behaves as a run of \w).
WordKeyword ==
  {"margin", "padding", "gap", "rgb", "hsl", "display", "position", "flex",
   "grid", "absolute", "fontFamily", "primary", "main", "DEFAULT", "sans",
   "DARK", "color", "px", "serif", "div"}

\* \w: letters, digits, underscore.
WordChar == HexDigit \cup {"x", "X", "_"} \cup WordKeyword

\* String.prototype.toLowerCase, symbol by symbol.
LowerSym(c) ==
  CASE c = "A" -> "a"
    [] c = "B" -> "b"
    [] c = "X" -> "x"
    [] c = "DARK" -> "dark"
    [] c = "DEFAULT" -> "default"
    [] c = "fontFamily" -> "fontfamily"
    [] OTHER -> c

toLowerCase(s) == [i \in 1..Len(s) |-> LowerSym(s[i])]

\* String.prototype.toUpperCase on one character (theme font names are
\* spelled with single characters).
UpperSym(c) ==
  CASE c = "a" -> "A"
    [] c = "b" -> "B"
    [] c = "x" -> "X"
    [] OTHER -> c

(***************************************************************************)
(* Generic string helpers.                                                 *)
(***************************************************************************)

Min(S) == CHOOSE x \in S : \A y \in S : x <= y

\* The index after the longest run of symbols of class C starting at i.
RECURSIVE RunEnd(_, _, _)
RunEnd(s, i, C) ==
  IF i <= Len(s) /\ s[i] \in C THEN RunEnd(s, i + 1, C) ELSE i

\* The index after the longest run of symbols outside class C starting at i.
RECURSIVE RunEndNot(_, _, _)
RunEndNot(s, i, C) ==
  IF i <= Len(s) /\ s[i] \notin C THEN RunEndNot(s, i + 1, C) ELSE i

\* s[i..j-1]
Slice(s, i, j) == SubSeq(s, i, j - 1)

\* Whether the symbols of k occur in s starting at index i.
StartsAt(s, i, k) ==
  /\ i >= 1
  /\ i + Len(k) - 1 <= Len(s)
  /\ \A n \in 1..Len(k) : s[i + n - 1] = k[n]

\* String.prototype.includes
includes(s, k) == \E i \in 1..(Len(s) + 1) : StartsAt(s, i, k)

\* String.prototype.trim
RECURSIVE TrimRight(_)
TrimRight(s) ==
  IF s # <<>> /\ s[Len(s)] \in Space THEN TrimRight(SubSeq(s, 1, Len(s) - 1))
  ELSE s

trim(s) == TrimRight(Slice(s, RunEnd(s, 1, Space), Len(s) + 1))

\* s.replace(/[C]/g, '') : drop every symbol of class C.
RECURSIVE Strip(_, _)
Strip(s, C) ==
  IF s = <<>> THEN <<>>
  ELSE (IF s[1] \in C THEN <<>> ELSE <<s[1]>>) \o Strip(Tail(s), C)

\* s.replace(/a/g, b) for single symbols.
ReplaceSym(s, a, b) == [i \in 1..Len(s) |-> IF s[i] = a THEN b ELSE s[i]]

\* Array.prototype.join("\n") of a sequence of strings.
RECURSIVE JoinNl(_)
JoinNl(parts) ==
  IF parts = <<>> THEN <<>>
  ELSE IF Len(parts) = 1 THEN parts[1]
  ELSE parts[1] \o <<"\n">> \o JoinNl(Tail(parts))

\* Concatenation of a sequence of strings.
RECURSIVE Concat(_)
Concat(parts) ==
  IF parts = <<>> THEN <<>> ELSE parts[1] \o Concat(Tail(parts))

\* Decimal digits of a natural number (template literal `${n}`).
DigitSym(d) ==
  CASE d = 0 -> "0" [] d = 1 -> "1" [] d = 2 -> "2" [] d = 3 -> "3"
    [] d = 4 -> "4" [] d = 5 -> "5" [] d = 6 -> "6" [] d = 7 -> "7"
    [] d = 8 -> "8" [] d = 9 -> "9"

RECURSIVE DecStr(_)
DecStr(n) ==
  IF n < 10 THEN <<DigitSym(n)>> ELSE DecStr(n \div 10) \o <<DigitSym(n % 10)>>

\* The symbol at index i, or a symbol of no class outside the string.
SymAt(s, i) == IF i >= 1 /\ i <= Len(s) THEN s[i] ELSE "<end>"

\* The elements of a sequence that a Set() of keys has not seen before, in
\* order of first appearance; keys[k] is the key of xs[k]:
\* `if (!seen.has(key)) { seen.add(key); out.push(x); }`
RECURSIVE FirstOccurrences(_, _, _)
FirstOccurrences(xs, keys, seen) ==
  IF xs = <<>> THEN <<>>
  ELSE IF keys[1] \in seen THEN FirstOccurrences(Tail(xs), Tail(keys), seen)
  ELSE <<xs[1]>> \o FirstOccurrences(Tail(xs), Tail(keys), seen \cup {keys[1]})

\* The same with the elements as their own keys.
Unique(xs) == FirstOccurrences(xs, xs, {})

(***************************************************************************)
(* Regular expressions.                                                    *)
(*                                                                         *)
(* A pattern is a sequence of items; an item is a character class with a   *)
(* quantifier.  `cls` and `neg` give the class ([...] or [^...]), `ci`     *)
(* says that the /i flag applies, `min` and `max` bound the repetitions    *)
(* (max < 0: unbounded) and `lazy` tells *? from *.  A regular expression  *)
(* is a sequence of alternative patterns (a|b|c).                          *)
(***************************************************************************)

Item(cls, neg, min, max, lazy) ==
  [cls |-> cls, neg |-> neg, ci |-> FALSE, min |-> min, max |-> max, lazy |-> lazy]

\* x      [C]
One(C) == Item(C, FALSE, 1, 1, FALSE)
\* x?     [C]?
Opt(C) == Item(C, FALSE, 0, 1, FALSE)
\* [C]*
Star(C) == Item(C, FALSE, 0, -1, FALSE)
\* [C]+
Plus(C) == Item(C, FALSE, 1, -1, FALSE)
\* [C]{lo,hi}
Rep(C, lo, hi) == Item(C, FALSE, lo, hi, FALSE)
\* [^C]*
StarNot(C) == Item(C, TRUE, 0, -1, FALSE)
\* [^C]+
PlusNot(C) == Item(C, TRUE, 1, -1, FALSE)
\* [\s\S]*?
LazyAny == Item({}, TRUE, 0, -1, TRUE)
\* x under the /i flag
OneNoCase(C) == [One(C) EXCEPT !.ci = TRUE]

\* Whether the symbol x is in the class of an item.
InClass(x, item) ==
  ((IF item.ci THEN LowerSym(x) ELSE x) \in item.cls) # item.neg

\* The number of symbols from index i on that are in the class of an item,
\* counted up to its max.
RECURSIVE RunLen(_, _, _, _)
RunLen(s, i, item, n) ==
  IF i + n <= Len(s) /\ n # item.max /\ InClass(s[i + n], item)
  THEN RunLen(s, i, item, n + 1) ELSE n

\* The preferred one of the matches R of the rest of a pattern after the
\* repetitions of an item that starts at index i: a greedy item prefers the
\* longest repetition, a lazy one the shortest, of those the rest of the
\* pattern can follow.  The result starts with i; <<>> when R is empty.
Prefer(lazy, i, R) ==
  IF R = {} THEN <<>>
  ELSE <<i>> \o (CHOOSE r \in R :
                   \A q \in R : IF lazy THEN r[1] <= q[1] ELSE r[1] >= q[1])

\* The backtracking match of the items k.. of a pattern at index i: the
\* index where each of these items starts followed by the index after the
\* match, or <<>> without a match.
RECURSIVE MatchFrom(_, _, _, _)
MatchFrom(pat, k, s, i) ==
  IF k > Len(pat) THEN <<i>>
  ELSE Prefer(pat[k].lazy, i,
              {MatchFrom(pat, k + 1, s, i + c) :
                 c \in pat[k].min..RunLen(s, i, pat[k], 0)} \ {<<>>})

\* The match of a regular expression at index i: its first alternative,
\* from alternative a on, that matches.
RECURSIVE MatchAt(_, _, _, _)
RECURSIVE MatchAtElse(_, _, _, _, _)
MatchAt(re, a, s, i) ==
  IF a > Len(re) THEN <<>>
  ELSE MatchAtElse(re, a, s, i, MatchFrom(re[a], 1, s, i))

MatchAtElse(re, a, s, i, m) ==
  IF m # <<>> THEN m ELSE MatchAt(re, a + 1, s, i)

\* The indices of s where the regular expression matches.
Hits(re, s) == {k \in 1..Len(s) : MatchAt(re, 1, s, k) # <<>>}

\* The index after a match.
MatchEnd(m) == m[Len(m)]

\* The `while ((match = re.exec(s)) !== null)` loop of a /g regular
\* expression: the successive leftmost matches, each search starting at
\* lastIndex, where the previous match ended (no expression here matches
\* the empty string).  hits are the indices where the expression matches.
RECURSIVE ScanFrom(_, _, _, _)
RECURSIVE ScanMore(_, _, _, _)
ScanFrom(re, s, hits, i) ==
  IF \E k \in hits : k >= i
  THEN ScanMore(re, s, hits, MatchAt(re, 1, s, Min({k \in hits : k >= i})))
  ELSE <<>>

ScanMore(re, s, hits, m) == <<m>> \o ScanFrom(re, s, hits, MatchEnd(m))

ScanAll(re, s) == ScanFrom(re, s, Hits(re, s), 1)

\* re.exec(s) of an expression without the /g flag: the leftmost match.
FirstMatch(re, s, hits) ==
  IF hits = {} THEN <<>> ELSE MatchAt(re, 1, s, Min(hits))

Search(re, s) == FirstMatch(re, s, Hits(re, s))

\* The text matched by the items a..b of the pattern of a match.
Group(s, m, a, b) == Slice(s, m[a], m[b + 1])

\* match[0] of each match.
Matched(s, ms) == [k \in 1..Len(ms) |-> Slice(s, ms[k][1], MatchEnd(ms[k]))]

\* The capture made of the items a..b, of each match.
Groups(s, ms, a, b) == [k \in 1..Len(ms) |-> Group(s, ms[k], a, b)]

\* The capture made of item g, of each match.
Captures(s, ms, g) == Groups(s, ms, g, g)

\* .trim() of each string.
TrimAll(xs) == [k \in 1..Len(xs) |-> trim(xs[k])]

Quote == {"'", "\""}

\* /(#[0-9a-fA-F]{3,8}|rgb[a]?\([^)]+\)|hsl[a]?\([^)]+\))/g
colorRegex ==
  << <<One({"#"}), Rep(HexDigit, 3, 8)>>,
     <<One({"rgb"}), Opt({"a"}), One({"("}), PlusNot({")"}), One({")"})>>,
     <<One({"hsl"}), Opt({"a"}), One({"("}), PlusNot({")"}), One({")"})>> >>

\* /font-family:\s*([^;]+)/g
fontFamilyRegex ==
  << <<One({"font-family"}), One({":"}), Star(Space), PlusNot({";"})>> >>

\* /font-size:\s*([^;]+)/g
fontSizeRegex ==
  << <<One({"font-size"}), One({":"}), Star(Space), PlusNot({";"})>> >>

\* /font-weight:\s*([^;]+)/g
fontWeightRegex ==
  << <<One({"font-weight"}), One({":"}), Star(Space), PlusNot({";"})>> >>

\* /(margin|padding|gap):\s*([^;]+)/g
spacingRegex ==
  << <<One({"margin", "padding", "gap"}), One({":"}), Star(Space),
       PlusNot({";"})>> >>

\* /<style[^>]*>([\s\S]*?)<\/style>/gi
styleRegex ==
  << <<OneNoCase({"<style"}), StarNot({">"}), One({">"}), LazyAny,
       OneNoCase({"</style>"})>> >>

\* /tailwind\.config\s*=\s*(\{[\s\S]*?\})\s*;?\s*<\/script>/
configRegex ==
  << <<One({"tailwind.config"}), Star(Space), One({"="}), Star(Space),
       One({"{"}), LazyAny, One({"}"}),
       Star(Space), Opt({";"}), Star(Space), One({"</script>"})>> >>

\* /['"]?(\w+)['"]?\s*:\s*['"]?(#[0-9a-fA-F]{3,8})['"]?/g
tailwindColorRegex ==
  << <<Opt(Quote), Plus(WordChar), Opt(Quote), Star(Space), One({":"}),
       Star(Space), Opt(Quote), One({"#"}), Rep(HexDigit, 3, 8), Opt(Quote)>> >>

\* /fontFamily[\s\S]*?['"](\w[\w\s]*)['"](?:\s*,|\s*\])/g
fontRegex ==
  << <<One({"fontFamily"}), LazyAny, One(Quote), One(WordChar),
       Star(WordChar \cup Space), One(Quote), Star(Space), One({",", "]"})>> >>

\* /fonts\.googleapis\.com\/css2?\?family=([^&"'<>\s]+)/g
googleFontsRegex ==
  << <<One({"fonts.googleapis.com/css2?family="}),
       PlusNot({"&", "\"", "'", "<", ">"} \cup Space)>> >>

(***************************************************************************)
(* Plain-CSS extractors.                                                   *)
(***************************************************************************)

\* name: `color-${colors.length + 1}`
RECURSIVE NameColors(_, _)
NameColors(hexes, n) ==
  IF hexes = <<>> THEN <<>>
  ELSE <<[name |-> <<"color-">> \o DecStr(n), hex |-> hexes[1],
          usage |-> "Extracted from CSS"]>> \o NameColors(Tail(hexes), n + 1)

\* A faulty extractColors: `seen` holds the lowercased matches.
extractColorsLowerSeen(css) ==
  NameColors(
    LET ms == Matched(css, ScanAll(colorRegex, css))
    IN  FirstOccurrences(ms, [k \in 1..Len(ms) |-> toLowerCase(ms[k])], {}), 1)

\* The Set `seen` holds the matched strings as they are.
extractColors(css) ==
  NameColors(Unique(Matched(css, ScanAll(colorRegex, css))), 1)

\* match[1].trim().replace(/['"]/g, ""), of each match
FamiliesOf(values) == [k \in 1..Len(values) |-> Strip(values[k], Quote)]

\* A faulty default: the last value of the list instead of the first.
LastOr(values, default) ==
  IF values # <<>> /\ values[Len(values)] # <<>> THEN values[Len(values)]
  ELSE default

\* weights[0] || "400"
FirstOr(values, default) ==
  IF values # <<>> /\ values[1] # <<>> THEN values[1] ELSE default

\* for (const family of families) fonts.push({family, weight, size, usage})
FontEntries(families, weight, size) ==
  [k \in 1..Len(families) |->
     [family |-> families[k], weight |-> weight, size |-> size,
      usage |-> "Extracted from CSS"]]

extractFonts(css) ==
  FontEntries(
    Unique(FamiliesOf(TrimAll(Captures(css, ScanAll(fontFamilyRegex, css), 4)))),
    FirstOr(TrimAll(Captures(css, ScanAll(fontWeightRegex, css), 4)),
            <<"4", "0", "0">>),
    FirstOr(TrimAll(Captures(css, ScanAll(fontSizeRegex, css), 4)),
            <<"1", "6", "px">>))

\* A faulty key: the value as captured, before trim().
SpacingKeyRaw(name, value) == name \o <<"-">> \o value

\* The Set key `${match[1]}-${value}`, value being match[2].trim().
SpacingKey(name, value) == name \o <<"-">> \o trim(value)

\* The loop of extractSpacing over the matches.
SpacingEntries(css, ms) ==
  FirstOccurrences(
    [k \in 1..Len(ms) |-> [name |-> Group(css, ms[k], 1, 1),
                           value |-> trim(Group(css, ms[k], 4, 4))]],
    [k \in 1..Len(ms) |-> SpacingKey(Group(css, ms[k], 1, 1),
                                     Group(css, ms[k], 4, 4))],
    {})

\* A faulty extractSpacing: one pass per property, so the entries come
\* grouped as margin, padding, gap.
extractSpacingByProperty(css) ==
  LET entries == SpacingEntries(css, ScanAll(spacingRegex, css))
  IN  SelectSeq(entries, LAMBDA e : e.name = <<"margin">>)
      \o SelectSeq(entries, LAMBDA e : e.name = <<"padding">>)
      \o SelectSeq(entries, LAMBDA e : e.name = <<"gap">>)

extractSpacing(css) == SpacingEntries(css, ScanAll(spacingRegex, css))

(***************************************************************************)
(* HTML harvesters and Tailwind / Google Fonts extractors.                 *)
(***************************************************************************)

\* parts.join("\n") of the bodies of the style elements
extractInlineStyles(html) == JoinNl(Captures(html, ScanAll(styleRegex, html), 4))

\* match ? match[1] : ""
ConfigOf(html, m) == IF m = <<>> THEN <<>> ELSE Group(html, m, 5, 7)

\* configRegex.exec(html): the first match only.
extractTailwindConfig(html) == ConfigOf(html, Search(configRegex, html))

\* A faulty key: the hex as written.
ExactHex(c) == c.hex

\* The Set key hex.toLowerCase().
LowerHex(c) == toLowerCase(c.hex)

\* colors.push({name, hex, usage}) unless the key was seen
TailwindColorEntries(cs) ==
  FirstOccurrences(cs, [k \in 1..Len(cs) |-> LowerHex(cs[k])], {})

\* { name: match[1], hex: match[2] } of each match
TailwindColorMatches(config, ms) ==
  [k \in 1..Len(ms) |-> [name |-> Group(config, ms[k], 2, 2),
                         hex |-> Group(config, ms[k], 8, 9),
                         usage |-> "Tailwind theme"]]

extractTailwindColors(config) ==
  TailwindColorEntries(
    TailwindColorMatches(config, ScanAll(tailwindColorRegex, config)))

HexVal(c) ==
  CASE c = "0" -> 0 [] c = "1" -> 1 [] c = "2" -> 2 [] c = "3" -> 3
    [] c = "4" -> 4 [] c = "5" -> 5 [] c = "6" -> 6 [] c = "7" -> 7
    [] c = "8" -> 8 [] c = "9" -> 9
    [] c \in {"a", "A"} -> 10 [] c \in {"b", "B"} -> 11

\* The character of an ASCII code.  The codes the alphabet has a symbol for
\* are listed; any other code is a character outside the alphabet.
AsciiSym(code) ==
  CASE code = 10 -> "\n"
    [] code = 32 -> " "
    [] code = 34 -> "\""
    [] code = 35 -> "#"
    [] code = 43 -> "+"
    [] code = 58 -> ":"
    [] code = 59 -> ";"
    [] code \in 48..57 -> DigitSym(code - 48)
    [] OTHER -> "<other>"

\* decodeURIComponent.  A "%" must be followed by two hex digits; the byte
\* they give is a character when below 0x80.  The hex digits of the alphabet
\* spell no UTF-8 lead byte (0xC2..0xF4), so every escape of 0x80 or more is
\* a stray continuation byte: malformed, like a "%" without two hex digits.
\* The result is [ok |-> TRUE, val |-> decoded] or [ok |-> FALSE] for a
\* thrown URIError.
RECURSIVE decodeURIComponent(_)
decodeURIComponent(s) ==
  IF s = <<>> THEN [ok |-> TRUE, val |-> <<>>]
  ELSE IF s[1] # "%" THEN
    LET rest == decodeURIComponent(Tail(s))
    IN  IF rest.ok THEN [ok |-> TRUE, val |-> <<s[1]>> \o rest.val]
        ELSE [ok |-> FALSE]
  ELSE IF Len(s) >= 3 /\ s[2] \in HexDigit /\ s[3] \in HexDigit
          /\ 16 * HexVal(s[2]) + HexVal(s[3]) < 128 THEN
    LET rest == decodeURIComponent(SubSeq(s, 4, Len(s)))
    IN  IF rest.ok
        THEN [ok |-> TRUE,
              val |-> <<AsciiSym(16 * HexVal(s[2]) + HexVal(s[3]))>> \o rest.val]
        ELSE [ok |-> FALSE]
  ELSE [ok |-> FALSE]

\* s.split(sep)[0]
SplitFirst(s, sep) == Slice(s, 1, RunEndNot(s, 1, {sep}))

\* A faulty order: split(":")[0] before decodeURIComponent.
GoogleFamilySplitFirst(raw) ==
  trim(ReplaceSym(decodeURIComponent(SplitFirst(raw, ":")).val, "+", " "))

\* decodeURIComponent(m).split(":")[0].replace(/\+/g, " ").trim()
GoogleFamily(raw) ==
  trim(ReplaceSym(SplitFirst(decodeURIComponent(raw).val, ":"), "+", " "))

\* {family, weight: "400", size: "16px", usage} of each family
TailwindFontEntries(families, usage) ==
  [k \in 1..Len(families) |->
     [family |-> families[k], weight |-> <<"4", "0", "0">>,
      size |-> <<"1", "6", "px">>, usage |-> usage]]

\* match[1] of each Google Fonts link of the HTML
GoogleRaws(html) == Captures(html, ScanAll(googleFontsRegex, html), 2)

\* Whether decodeURIComponent throws for one of the captured families.
AnyThrows(raws) == \E k \in 1..Len(raws) : ~decodeURIComponent(raws[k]).ok

\* Whether extractTailwindFonts(config, html) throws: decodeURIComponent is
\* applied to every Google Fonts match, inside the loop.
TailwindFontsThrows(config, html) == AnyThrows(GoogleRaws(html))

\* The family of each captured Google Fonts family.
GoogleFamilies(raws) == [k \in 1..Len(raws) |-> GoogleFamily(raws[k])]

\* The Set key family.toLowerCase().
LowerFamily(f) == toLowerCase(f.family)

\* A faulty loop: no `seen` set.
TailwindFontsNoSeen(fs) == fs

\* fonts.push(...) unless the family is empty or its key was seen: one
\* `seen` set for the config families and the Google Fonts families.
TailwindFontsSeenOnce(fs) ==
  FirstOccurrences(fs, [k \in 1..Len(fs) |-> LowerFamily(fs[k])], {})

\* `family && ...`
NonEmptyFamilies(fs) == SelectSeq(fs, LAMBDA f : f.family # <<>>)

\* extractTailwindFonts(config, html) when it returns.
extractTailwindFonts(config, html) ==
  TailwindFontsSeenOnce(NonEmptyFamilies(
    TailwindFontEntries(
      TrimAll(Groups(config, ScanAll(fontRegex, config), 4, 5)),
      "Tailwind theme")
    \o TailwindFontEntries(GoogleFamilies(GoogleRaws(html)), "Google Fonts")))

\* The symbols that begin, and that end, with a \w character.
StartsWord ==
  WordChar \cup {"font-family", "font-size", "font-weight", "tailwind.config",
                 "fonts.googleapis.com/css2?family="}
EndsWord ==
  WordChar \cup {"font-family", "font-size", "font-weight", "tailwind.config",
                 "<style", "<script"}

\* /\bword\b/.test(s)
HasWord(s, word) ==
  \E i \in 1..Len(s) :
    /\ s[i] = word
    /\ SymAt(s, i - 1) \notin EndsWord
    /\ SymAt(s, i + 1) \notin StartsWord

\* A faulty test: without html.includes("display:flex").
LayoutHitSpaced(html, prop, word) ==
  \/ includes(html, <<prop, ":", " ", word>>)
  \/ HasWord(html, word)

LayoutHit(html, prop, word) ==
  \/ includes(html, <<prop, ":", " ", word>>)
  \/ includes(html, <<prop, ":", word>>)
  \/ HasWord(html, word)

extractLayouts(html) ==
  (IF LayoutHit(html, "display", "flex")
   THEN <<[type |-> <<"Flexbox">>, description |-> <<"Uses CSS Flexbox for layout">>]>>
   ELSE <<>>)
  \o (IF LayoutHit(html, "display", "grid")
      THEN <<[type |-> <<"Grid">>, description |-> <<"Uses CSS Grid for layout">>]>>
      ELSE <<>>)
  \o (IF LayoutHit(html, "position", "absolute")
      THEN <<[type |-> <<"Absolute">>, description |-> <<"Uses absolute positioning">>]>>
      ELSE <<>>)

(***************************************************************************)
(* extractDesignContext: the synchronous part, after the fetches.          *)
(*                                                                         *)
(* An optional value (a field that may be undefined) is <<>> when absent   *)
(* and <<v>> when present.  The theme of a screen is an optional record    *)
(* [customColor, font, colorMode] of optional strings.                     *)
(***************************************************************************)

None == <<>>
Some(v) == <<v>>

EmptyContext == [colors |-> <<>>, fonts |-> <<>>, spacing |-> <<>>, layouts |-> <<>>]

\* [css, inlineStyles].filter(Boolean).join("\n")
CombinedCss(html, css) ==
  LET inlineStyles == IF html # <<>> THEN extractInlineStyles(html) ELSE <<>>
  IN  JoinNl(SelectSeq(<<css, inlineStyles>>, LAMBDA x : x # <<>>))

\* Whether the extraction throws before it returns: the only call that can
\* throw is extractTailwindFonts, reached when the HTML has a Tailwind config.
ThrowsWithConfig(html, config) ==
  config # <<>> /\ TailwindFontsThrows(config, html)

ExtractionThrows(html, css) ==
  html # <<>> /\ ThrowsWithConfig(html, extractTailwindConfig(html))

\* if (allCss) { context.colors = ...; context.fonts = ...; context.spacing = ... }
PlainContext(allCss) ==
  IF allCss # <<>>
  THEN [colors |-> extractColors(allCss), fonts |-> extractFonts(allCss),
        spacing |-> extractSpacing(allCss), layouts |-> <<>>]
  ELSE EmptyContext

\* A faulty merge: the Tailwind entries are put before the plain-CSS ones.
TailwindContextPrepend(context, html, config) ==
  IF config # <<>>
  THEN [context EXCEPT !.colors = extractTailwindColors(config) \o @,
                       !.fonts = extractTailwindFonts(config, html) \o @]
  ELSE context

\* A faulty gate: the fonts of the Google Fonts links are added without a
\* Tailwind config as well.
TailwindContextUngated(context, html, config) ==
  [context EXCEPT !.colors = @ \o (IF config # <<>>
                                   THEN extractTailwindColors(config) ELSE <<>>),
                  !.fonts = @ \o extractTailwindFonts(config, html)]

\* if (tailwindConfig) { context.colors.push(...); context.fonts.push(...) }
TailwindContext(context, html, config) ==
  IF config # <<>>
  THEN [context EXCEPT !.colors = @ \o extractTailwindColors(config),
                       !.fonts = @ \o extractTailwindFonts(config, html)]
  ELSE context

\* if (html) { ...; context.layouts = extractLayouts(html) }
HtmlContext(context, html) ==
  IF html # <<>>
  THEN [TailwindContext(context, html, extractTailwindConfig(html))
          EXCEPT !.layouts = extractLayouts(html)]
  ELSE context

\* `context` when the theme fallback is reached.
ExtractedContext(html, css) ==
  HtmlContext(PlainContext(CombinedCss(html, css)), html)

\* theme.font.replace(/_/g, " ").replace(/\b\w/g, c => c.toUpperCase())
ThemeFontName(font) ==
  LET spaced == ReplaceSym(font, "_", " ")
  IN  [i \in 1..Len(spaced) |->
         IF spaced[i] \in WordChar /\ SymAt(spaced, i - 1) \notin EndsWord
         THEN UpperSym(spaced[i]) ELSE spaced[i]]

\* A present, non-empty string: `theme.x && typeof theme.x === "string"`.
Truthy(opt) == opt # None /\ opt[1] # <<>>

\* A faulty theme color: hasColor compares the hex values as written.
ThemeColorsCaseSensitive(colors, theme) ==
  IF /\ Truthy(theme.customColor)
     /\ ~\E k \in 1..Len(colors) : colors[k].hex = theme.customColor[1]
  THEN <<[name |-> <<"primary">>, hex |-> theme.customColor[1],
          usage |-> "Theme primary color"]>> \o colors
  ELSE colors

\* A faulty theme color: push() instead of unshift().
ThemeColorsAppend(colors, theme) ==
  IF /\ Truthy(theme.customColor)
     /\ ~\E k \in 1..Len(colors) :
           toLowerCase(colors[k].hex) = toLowerCase(theme.customColor[1])
  THEN colors \o <<[name |-> <<"primary">>, hex |-> theme.customColor[1],
                    usage |-> "Theme primary color"]>>
  ELSE colors

ThemeColors(colors, theme) ==
  IF /\ Truthy(theme.customColor)
     /\ ~\E k \in 1..Len(colors) :
           toLowerCase(colors[k].hex) = toLowerCase(theme.customColor[1])
  THEN <<[name |-> <<"primary">>, hex |-> theme.customColor[1],
          usage |-> "Theme primary color"]>> \o colors
  ELSE colors

\* A faulty theme font: hasFont compares without lowercasing.
ThemeFontsCaseSensitive(fonts, theme) ==
  IF /\ Truthy(theme.font)
     /\ ~\E k \in 1..Len(fonts) :
           includes(fonts[k].family, ThemeFontName(theme.font[1]))
  THEN <<[family |-> ThemeFontName(theme.font[1]), weight |-> <<"4", "0", "0">>,
          size |-> <<"1", "6", "px">>, usage |-> "Theme font"]>> \o fonts
  ELSE fonts

\* A faulty theme font: hasFont tests equality instead of includes().
ThemeFontsExactMatch(fonts, theme) ==
  IF /\ Truthy(theme.font)
     /\ ~\E k \in 1..Len(fonts) :
           toLowerCase(fonts[k].family) = toLowerCase(ThemeFontName(theme.font[1]))
  THEN <<[family |-> ThemeFontName(theme.font[1]), weight |-> <<"4", "0", "0">>,
          size |-> <<"1", "6", "px">>, usage |-> "Theme font"]>> \o fonts
  ELSE fonts

ThemeFonts(fonts, theme) ==
  IF /\ Truthy(theme.font)
     /\ ~\E k \in 1..Len(fonts) :
           includes(toLowerCase(fonts[k].family),
                    toLowerCase(ThemeFontName(theme.font[1])))
  THEN <<[family |-> ThemeFontName(theme.font[1]), weight |-> <<"4", "0", "0">>,
          size |-> <<"1", "6", "px">>, usage |-> "Theme font"]>> \o fonts
  ELSE fonts

\* A faulty color mode: added only when no layout was detected.
ThemeLayoutsIfEmpty(layouts, theme) ==
  IF Truthy(theme.colorMode) /\ layouts = <<>>
  THEN <<[type |-> theme.colorMode[1],
          description |-> theme.colorMode[1] \o <<" color mode">>]>>
  ELSE layouts

ThemeLayouts(layouts, theme) ==
  IF Truthy(theme.colorMode)
  THEN <<[type |-> theme.colorMode[1],
          description |-> theme.colorMode[1] \o <<" color mode">>]>> \o layouts
  ELSE layouts

\* A faulty fallback: applied only when the theme has all three fields.
MergeThemeAllOrNothing(context, themeOpt) ==
  IF themeOpt = None
     \/ ~(Truthy(themeOpt[1].customColor) /\ Truthy(themeOpt[1].font)
          /\ Truthy(themeOpt[1].colorMode))
  THEN context
  ELSE [colors  |-> ThemeColors(context.colors, themeOpt[1]),
        fonts   |-> ThemeFonts(context.fonts, themeOpt[1]),
        spacing |-> context.spacing,
        layouts |-> ThemeLayouts(context.layouts, themeOpt[1])]

\* The theme fallback: `if (screen.theme) { ... }`.
MergeTheme(context, themeOpt) ==
  IF themeOpt = None THEN context
  ELSE [colors  |-> ThemeColors(context.colors, themeOpt[1]),
        fonts   |-> ThemeFonts(context.fonts, themeOpt[1]),
        spacing |-> context.spacing,
        layouts |-> ThemeLayouts(context.layouts, themeOpt[1])]

(***************************************************************************)
(* The inputs: file contents are concatenations of fragments.              *)
(***************************************************************************)

\* The fragments a CSS file is made of.
CssFrags ==
  << <<"color", ":", "#", "a", "b", "0", ";">>,
     <<"color", ":", "#", "A", "B", "0", ";">>,
     <<"margin", ":", " ", "1", "px", ";">>,
     <<"font-family", ":", " ", "'", "A", "b", "'", ";">>,
     <<"font-family", ":", "a", "b", ";">> >>

\* The fragments an HTML file is made of: a style block, a script with a
\* Tailwind config, a Google Fonts link, a Google Fonts link whose family is
\* not valid percent-encoding, and an element with a layout class.
HtmlFrags ==
  << <<"<style", ">", "color", ":", "#", "1", "2", "3", ";", "margin", ":",
       "1", "px", " ", ";", "</style>">>,
     <<"<script", ">", "tailwind.config", " ", "=", " ", "{", "primary", ":",
       " ", "'", "#", "A", "b", "0", "'", ",", "main", ":", "'", "#", "a",
       "B", "0", "'", ",", "fontFamily", ":", "[", "'", "A", "b", "'", "]",
       "}", ";", "</script>">>,
     <<"<", "link", " ", "href", "=", "\"",
       "fonts.googleapis.com/css2?family=", "a", "+", "B", "+", "x", ":", "4",
       "\"", ">">>,
     <<"<", "link", " ", "href", "=", "\"",
       "fonts.googleapis.com/css2?family=", "1", "0", "0", "%", "\"", ">">>,
     <<"<", "div", " ", "class", "=", "\"", "flex", "\"", ">">> >>

\* The longest file, in fragments, HTML and CSS together.
MaxFrags == 2

\* Sequences of at most n fragment numbers out of k fragments.
FragSeqs(k, n) == UNION {[1..m -> 1..k] : m \in 0..n}

\* The text of a file given by its fragment numbers.
Text(frags, ids) == Concat([i \in 1..Len(ids) |-> frags[ids[i]]])

HtmlText(ids) == Text(HtmlFrags, ids)
CssText(ids) == Text(CssFrags, ids)

ThemeColorValues == {None, Some(<<>>), Some(<<"#", "A", "B", "0">>)}
ThemeFontValues == {None, Some(<<>>), Some(<<"a", "_", "b">>)}
ThemeModeValues == {None, Some(<<>>), Some(<<"DARK">>)}

\* screen.theme: undefined, or an object with any of the three fields.
Themes ==
  {None} \cup
  {Some(t) : t \in [customColor : ThemeColorValues, font : ThemeFontValues,
                    colorMode : ThemeModeValues]}

(***************************************************************************)
(* The calls of extractDesignContext.                                      *)
(***************************************************************************)

Calls == {"a", "b"}

\* How one downloadFile(url) ends: the body is read, fetch() rejects, the
\* response is not ok, or fetch() resolves ok and response.text() rejects.
Outcomes == {"ok", "fetch_rejects", "status_not_ok", "body_fails"}

VARIABLES
  srv,        \* what the Stitch service may answer: themes, HTML and CSS files
  pc,         \* pc[c]: where call c is
  screen,     \* screen[c]: the theme of the screen call c got from getScreen
  urls,       \* urls[c]: whether fetchScreenCode's screen has download URLs
  html,       \* html[c]: `html` of fetchScreenCode, as fragment numbers
  css,        \* css[c]: `css` of fetchScreenCode, as fragment numbers
  dl,         \* dl[c]: how the two downloads of call c ended
  extracted,  \* extracted[c]: `context` before the theme fallback
  result,     \* result[c]: the DesignContext call c resolved with
  err,        \* err[c]: why call c rejected
  reqs,       \* reqs[c]: the requests call c has issued, per target
  tool,       \* the tool invocation: the name of the tool and its arguments
  tpc,        \* where the handler of the invoked tool is
  local,      \* the local variables of the handler
  log,        \* the client calls of the handler: issued, resolved, rejected
  tres,       \* how the handler's promise settled, and the CallToolResult
  fn,         \* the exported function that is applied
  arg,        \* its arguments, as fragment numbers
  out,        \* what the application gave
  currentView,  \* StitchApp: the state `currentView`
  loading,      \* StitchApp: the state `loading`
  error,        \* StitchApp: the state `error`
  inflight      \* StitchApp: the callTool calls that await their response

vars == <<srv, pc, screen, urls, html, css, dl, extracted, result, err, reqs>>

toolVars == <<tool, tpc, local, log, tres>>

pureVars == <<fn, arg, out>>

appVars == <<currentView, loading, error, inflight>>

\* The handler's promise before it settles.
Unsettled ==
  [settled |-> "pending", isError |-> FALSE,
   text |-> [type |-> "none", data |-> <<>>]]

\* No tool is invoked.
NoTool ==
  /\ tool = [name |-> "none", args |-> <<>>]
  /\ tpc = "idle"
  /\ local = [projectId |-> <<>>, screen |-> <<>>]
  /\ log = <<>>
  /\ tres = Unsettled

\* No exported function is applied on its own.
NoPure ==
  /\ fn = "none"
  /\ arg = <<>>
  /\ out = <<>>

\* useState(null), useState(false), useState(null); no call in flight.
NoApp ==
  /\ currentView = <<>>
  /\ loading = FALSE
  /\ error = <<>>
  /\ inflight = <<>>

AllOf(v) == [c \in Calls |-> v]

InitCalls ==
  /\ pc = AllOf("start")
  /\ screen = AllOf(None)
  /\ urls = AllOf([html |-> FALSE, css |-> FALSE])
  /\ html = AllOf(<<>>)
  /\ css = AllOf(<<>>)
  /\ dl = AllOf([html |-> "none", css |-> "none"])
  /\ extracted = AllOf(EmptyContext)
  /\ result = AllOf(EmptyContext)
  /\ err = AllOf("none")
  /\ reqs = AllOf([screen |-> 0, html |-> 0, css |-> 0])

\* The service may hold any screen: every fetch observes some version of it.
Init ==
  /\ srv = [themes |-> Themes,
            htmls |-> FragSeqs(Len(HtmlFrags), MaxFrags),
            csss |-> FragSeqs(Len(CssFrags), MaxFrags)]
  /\ InitCalls
  /\ NoTool
  /\ NoApp
  /\ NoPure

Reject(c, why) ==
  /\ pc' = [pc EXCEPT ![c] = "rejected"]
  /\ err' = [err EXCEPT ![c] = why]

Requested(c, what) == reqs' = [reqs EXCEPT ![c][what] = @ + 1]

\* const screen = await this.getScreen(projectId, screenId)
GetScreen(c) ==
  /\ pc[c] = "start"
  /\ Requested(c, "screen")
  /\ \/ /\ \E t \in srv.themes : screen' = [screen EXCEPT ![c] = t]
        /\ pc' = [pc EXCEPT ![c] = "fetchCode"]
        /\ UNCHANGED err
     \/ /\ Reject(c, "getScreen")
        /\ UNCHANGED screen
  /\ UNCHANGED <<srv, urls, html, css, dl, extracted, result>>

\* fetchScreenCode: const screen = await this.getScreen(pid, screenId)
FetchCodeGetScreen(c) ==
  /\ pc[c] = "fetchCode"
  /\ Requested(c, "screen")
  /\ \/ /\ \E h \in BOOLEAN, s \in BOOLEAN :
             urls' = [urls EXCEPT ![c] = [html |-> h, css |-> s]]
        /\ pc' = [pc EXCEPT ![c] = "html"]
        /\ UNCHANGED err
     \/ /\ Reject(c, "getScreen")
        /\ UNCHANGED urls
  /\ UNCHANGED <<srv, screen, html, css, dl, extracted, result>>

\* What downloadFile(url) resolves with for a file `file`: the body when
\* fetch resolves ok and the body is read, "" from `if (!response.ok) return ""`
\* and from the catch block (a rejected fetch, or rejected getHeaders).
Delivered(outcome, file) == IF outcome = "ok" THEN file ELSE <<>>

\* Whether the promise of downloadFile(url) rejects: `return response.text()`
\* hands the promise of the body to the caller without awaiting it inside the
\* try block, so its rejection is not caught by the catch.
DownloadRejects(outcome) == outcome = "body_fails"

\* A faulty download: after a failure the URL is requested again.
DownloadHtmlRetry(c) ==
  /\ pc[c] = "html"
  /\ IF urls[c].html
     THEN \E o \in Outcomes, f \in srv.htmls :
            /\ Requested(c, "html")
            /\ dl' = [dl EXCEPT ![c].html = o]
            /\ IF o = "ok"
               THEN /\ html' = [html EXCEPT ![c] = f]
                    /\ pc' = [pc EXCEPT ![c] = "css"]
               ELSE /\ reqs[c].html < 2
                    /\ UNCHANGED <<html, pc>>
            /\ UNCHANGED err
     ELSE /\ pc' = [pc EXCEPT ![c] = "css"]
          /\ UNCHANGED <<html, dl, err, reqs>>
  /\ UNCHANGED <<srv, screen, urls, css, extracted, result>>

\* if (screen.htmlCode?.downloadUrl) html = await this.downloadFile(...)
DownloadHtml(c) ==
  /\ pc[c] = "html"
  /\ IF urls[c].html
     THEN \E o \in Outcomes, f \in srv.htmls :
            /\ Requested(c, "html")
            /\ dl' = [dl EXCEPT ![c].html = o]
            /\ IF DownloadRejects(o)
               THEN Reject(c, "download") /\ UNCHANGED html
               ELSE /\ html' = [html EXCEPT ![c] = Delivered(o, f)]
                    /\ pc' = [pc EXCEPT ![c] = "css"]
                    /\ UNCHANGED err
     ELSE /\ pc' = [pc EXCEPT ![c] = "css"]
          /\ UNCHANGED <<html, dl, err, reqs>>
  /\ UNCHANGED <<srv, screen, urls, css, extracted, result>>

\* if (screen.cssCode?.downloadUrl) css = await this.downloadFile(...)
DownloadCss(c) ==
  /\ pc[c] = "css"
  /\ IF urls[c].css
     THEN \E o \in Outcomes, f \in srv.csss :
            /\ Len(f) + Len(html[c]) <= MaxFrags
            /\ Requested(c, "css")
            /\ dl' = [dl EXCEPT ![c].css = o]
            /\ IF DownloadRejects(o)
               THEN Reject(c, "download") /\ UNCHANGED css
               ELSE /\ css' = [css EXCEPT ![c] = Delivered(o, f)]
                    /\ pc' = [pc EXCEPT ![c] = "extract"]
                    /\ UNCHANGED err
     ELSE /\ pc' = [pc EXCEPT ![c] = "extract"]
          /\ UNCHANGED <<css, dl, err, reqs>>
  /\ UNCHANGED <<srv, screen, urls, html, extracted, result>>

\* A faulty extraction: the Set `seen` of extractColors is shared by the
\* calls, so a color another call has reported is not reported again.
ExtractSharedSeen(c) ==
  /\ pc[c] = "extract"
  /\ IF ExtractionThrows(HtmlText(html[c]), CssText(css[c]))
     THEN /\ Reject(c, "URIError")
          /\ UNCHANGED <<extracted, result>>
     ELSE LET ctx  == ExtractedContext(HtmlText(html[c]), CssText(css[c]))
              seen == UNION {{result[d].colors[k].hex :
                                k \in 1..Len(result[d].colors)} :
                             d \in Calls \ {c}}
              kept == [ctx EXCEPT !.colors =
                         SelectSeq(ctx.colors, LAMBDA x : x.hex \notin seen)]
          IN  /\ extracted' = [extracted EXCEPT ![c] = kept]
              /\ result' = [result EXCEPT ![c] = MergeTheme(kept, screen[c])]
              /\ pc' = [pc EXCEPT ![c] = "done"]
              /\ UNCHANGED err
  /\ UNCHANGED <<srv, screen, urls, html, css, dl, reqs>>

\* The rest of extractDesignContext, from `const inlineStyles` to `return
\* context`: no await, so one step.
Extract(c) ==
  /\ pc[c] = "extract"
  /\ IF ExtractionThrows(HtmlText(html[c]), CssText(css[c]))
     THEN /\ Reject(c, "URIError")
          /\ UNCHANGED <<extracted, result>>
     ELSE /\ extracted' = [extracted EXCEPT ![c] =
                             ExtractedContext(HtmlText(html[c]), CssText(css[c]))]
          /\ result' = [result EXCEPT ![c] = MergeTheme(extracted'[c], screen[c])]
          /\ pc' = [pc EXCEPT ![c] = "done"]
          /\ UNCHANGED err
  /\ UNCHANGED <<srv, screen, urls, html, css, dl, reqs>>

\* A faulty extractDesignContext: the extraction does not wait for the CSS
\* download.
ExtractBeforeCss(c) ==
  /\ pc[c] = "css"
  /\ extracted' = [extracted EXCEPT ![c] =
                     ExtractedContext(HtmlText(html[c]), <<>>)]
  /\ result' = [result EXCEPT ![c] = MergeTheme(extracted'[c], screen[c])]
  /\ pc' = [pc EXCEPT ![c] = "done"]
  /\ UNCHANGED <<srv, screen, urls, html, css, dl, reqs, err>>

StepUnjoined(c) ==
  /\ \/ GetScreen(c)
     \/ FetchCodeGetScreen(c)
     \/ DownloadHtml(c)
     \/ DownloadCss(c)
     \/ Extract(c)
     \/ ExtractBeforeCss(c)
  /\ UNCHANGED <<toolVars, pureVars, appVars>>

Step(c) ==
  /\ \/ GetScreen(c)
     \/ FetchCodeGetScreen(c)
     \/ DownloadHtml(c)
     \/ DownloadCss(c)
     \/ Extract(c)
  /\ UNCHANGED <<toolVars, pureVars, appVars>>

\* One call of extractDesignContext against a service that may answer anything.
Next == Step("a")

Spec == Init /\ [][Next]_vars

\* The themes of the screens of the two-call model.
ThemesTwo ==
  {None,
   Some([customColor |-> Some(<<"#", "A", "B", "0">>),
         font |-> Some(<<"a", "_", "b">>),
         colorMode |-> Some(<<"DARK">>)])}

\* Two calls of extractDesignContext, in any interleaving of their awaits,
\* for a screen that does not change: its theme and its files are fixed.
InitTwo ==
  /\ \E t \in ThemesTwo,
        h \in FragSeqs(Len(HtmlFrags), MaxFrags - 1),
        s \in FragSeqs(Len(CssFrags), MaxFrags - 1) :
        srv = [themes |-> {t}, htmls |-> {h}, csss |-> {s}]
  /\ InitCalls
  /\ NoTool
  /\ NoApp
  /\ NoPure

NextTwo == \E c \in Calls : Step(c)

SpecTwo == InitTwo /\ [][NextTwo]_vars

\* A faulty replace: every leading "projects/" is removed.
RECURSIVE normalizeProjectIdAll(_)
normalizeProjectIdAll(projectId) ==
  IF StartsAt(projectId, 1, <<"projects", "/">>)
  THEN normalizeProjectIdAll(Slice(projectId, 3, Len(projectId) + 1))
  ELSE projectId

\* projectId.replace(/^projects\//, "")
normalizeProjectId(projectId) ==
  IF StartsAt(projectId, 1, <<"projects", "/">>)
  THEN Slice(projectId, 3, Len(projectId) + 1)
  ELSE projectId

(***************************************************************************)
(* The tool handlers of the server.  One tool is invoked; its handler      *)
(* issues client calls (StitchClient methods), which resolve or reject,    *)
(* and its promise settles with a CallToolResult.  `log` keeps the client  *)
(* calls in the order they were issued and settled.                        *)
(***************************************************************************)

ToolNames ==
  {"list-projects", "list-screens", "design-viewer", "generate-design",
   "extract-design-context", "create-project"}

\* The messages of the Errors a client call rejects with: request() throws
\* `Stitch API error ${status}: ${text}`, fetch() rejects.
Failures == {"Stitch API error 500: x", "fetch failed"}

\* A thrown Error with a message.
ErrorOf(message) ==
  [instanceofError |-> TRUE, message |-> message, string |-> "Error: " \o message]

\* errorResult(err)
errorResult(thrown) ==
  [settled |-> "resolved", isError |-> TRUE,
   text |-> [type |-> "error",
             data |-> [message |-> IF thrown.instanceofError
                                   THEN thrown.message ELSE thrown.string]]]

\* A faulty handler without its catch clause: the promise rejects.
Uncaught(thrown) ==
  [settled |-> "rejected", isError |-> FALSE,
   text |-> [type |-> "none", data |-> <<>>]]

\* catch (err) { return errorResult(err); }
Catch(thrown) == errorResult(thrown)

\* return { content: [{ type: "text", text: JSON.stringify({type, data}) }] }
TextResult(type, data) ==
  [settled |-> "resolved", isError |-> FALSE,
   text |-> [type |-> type, data |-> data]]

ProjectIds == {<<"7">>, <<"projects", "/", "7">>}

TitleMax == 50

\* A short prompt and one of more than TitleMax characters.
Prompts ==
  {<<"a">>, [i \in 1..(TitleMax + 2) |-> IF i = TitleMax THEN " " ELSE "a"]}

\* prompt.length > 50 ? prompt.substring(0, 50).trim() + "..." : prompt
projectTitle(prompt) ==
  IF Len(prompt) > TitleMax
  THEN trim(SubSeq(prompt, 1, TitleMax)) \o <<".", ".", ".">>
  ELSE prompt

\* The arguments a tool accepts (its inputSchema).
ToolArgs(name) ==
  CASE name = "list-projects" ->
         {[filter |-> f] : f \in {None, Some(<<"view=shared">>)}}
    [] name = "list-screens" -> {[projectId |-> q] : q \in ProjectIds}
    [] name \in {"design-viewer", "extract-design-context"} ->
         {[projectId |-> q, screenId |-> <<"s">>] : q \in ProjectIds}
    [] name = "generate-design" ->
         {[projectId |-> o, prompt |-> q] :
            o \in {None, Some(<<>>)} \cup {Some(i) : i \in ProjectIds},
            q \in Prompts}
    [] name = "create-project" ->
         {[title |-> o] : o \in {None, Some(<<>>), Some(<<"T">>)}}

\* What the client calls resolve with.
ProjectLists == {<<>>, <<[name |-> <<"projects", "/", "7">>]>>}
ScreenLists == {<<>>, <<[name |-> <<"s">>]>>}
NewProjects == {[name |-> <<"projects", "/", "9">>], [name |-> <<"9">>]}

\* The `screen` of the result of generateScreenFromText: { name: "" } when
\* the response holds no design, else the first screen, with or without an
\* htmlCode.downloadUrl and a screenshot.downloadUrl.
GeneratedScreens ==
  {[name |-> <<>>, htmlUrl |-> FALSE, screenshotUrl |-> None],
   [name |-> <<"s">>, htmlUrl |-> FALSE, screenshotUrl |-> Some(<<"u">>)],
   [name |-> <<"s">>, htmlUrl |-> TRUE, screenshotUrl |-> None],
   [name |-> <<"s">>, htmlUrl |-> TRUE, screenshotUrl |-> Some(<<"u">>)]}

\* The client call `op` is issued with the arguments a.
Issued(op, a) == Append(log, [op |-> op, ph |-> "call", val |-> a])

\* The client call `op` resolves with v (ph = "ok") or rejects with the
\* Error of message v (ph = "fail").
Settles(op, ph, v) == log' = Append(log, [op |-> op, ph |-> ph, val |-> v])

\* Whether the client call `op` was issued and has not settled.
IsPending(op) ==
  /\ \E i \in 1..Len(log) : log[i].op = op /\ log[i].ph = "call"
  /\ \A i \in 1..Len(log) : log[i].op = op => log[i].ph = "call"

\* The events of the log of the client call `op` that settled as `ph`.
Settled(op, ph) == {i \in 1..Len(log) : log[i].op = op /\ log[i].ph = ph}

\* The tool `name` is invoked with one of its arguments and its handler
\* runs up to its first await, of the client call `op`.
Invoked(name, a, op, sent) ==
  /\ tpc = "idle"
  /\ tool' = [name |-> name, args |-> a]
  /\ log' = Issued(op, sent)
  /\ tpc' = "await"
  /\ UNCHANGED <<local, tres>>

\* The awaited call of a handler with one client call resolves with one of
\* `values` or rejects; the handler returns.
Returns(name, op, type, values) ==
  /\ tool.name = name
  /\ tpc = "await"
  /\ \/ \E v \in values :
          /\ Settles(op, "ok", v)
          /\ tres' = TextResult(type, v)
     \/ \E m \in Failures :
          /\ Settles(op, "fail", m)
          /\ tres' = Catch(ErrorOf(m))
  /\ tpc' = "done"
  /\ UNCHANGED <<tool, local>>

\* list-projects: const projects = await stitch.listProjects(args.filter)
ListProjects ==
  /\ \E a \in ToolArgs("list-projects") :
       Invoked("list-projects", a, "listProjects", a)
  /\ UNCHANGED <<vars, pureVars, appVars>>

ListProjectsReturns ==
  /\ Returns("list-projects", "listProjects", "list_projects",
             {[projects |-> v] : v \in ProjectLists})
  /\ UNCHANGED <<vars, pureVars, appVars>>

\* list-screens: const screens = await stitch.listScreens(args.projectId)
ListScreens ==
  /\ \E a \in ToolArgs("list-screens") :
       Invoked("list-screens", a, "listScreens", a)
  /\ UNCHANGED <<vars, pureVars, appVars>>

ListScreensReturns ==
  /\ Returns("list-screens", "listScreens", "list_screens",
             {[projectId |-> tool.args.projectId, screens |-> v] :
                v \in ScreenLists})
  /\ UNCHANGED <<vars, pureVars, appVars>>

\* extract-design-context: await stitch.extractDesignContext(...)
ExtractDesignContext ==
  /\ \E a \in ToolArgs("extract-design-context") :
       Invoked("extract-design-context", a, "extractDesignContext", a)
  /\ UNCHANGED <<vars, pureVars, appVars>>

ExtractDesignContextReturns ==
  /\ Returns("extract-design-context", "extractDesignContext",
             "design_context", {EmptyContext})
  /\ UNCHANGED <<vars, pureVars, appVars>>

\* create-project: const title = args.title || "New Stitch Project"
CreateProject ==
  /\ \E a \in ToolArgs("create-project") :
       Invoked("create-project", a, "createProject",
               [title |-> IF Truthy(a.title) THEN a.title[1]
                          ELSE <<"New Stitch Project">>])
  /\ UNCHANGED <<vars, pureVars, appVars>>

CreateProjectReturns ==
  /\ Returns("create-project", "createProject", "create_project",
             {[project |-> v] : v \in NewProjects})
  /\ UNCHANGED <<vars, pureVars, appVars>>

\* The four client calls of Promise.all([...]) of design-viewer.
ViewerCalls ==
  <<"getScreen", "fetchScreenImage", "fetchScreenCode", "extractDesignContext">>

\* design-viewer: the four calls are issued at once.
DesignViewer ==
  /\ tpc = "idle"
  /\ \E a \in ToolArgs("design-viewer") :
       /\ tool' = [name |-> "design-viewer", args |-> a]
       /\ log' = [k \in 1..Len(ViewerCalls) |->
                    [op |-> ViewerCalls[k], ph |-> "call", val |-> a]]
  /\ tpc' = "all"
  /\ UNCHANGED <<local, tres>>
  /\ UNCHANGED <<vars, pureVars, appVars>>

\* One of the four calls settles.  Promise.all rejects with the first
\* rejection and resolves when all four have resolved; the calls that are
\* still pending when the handler has returned go on and settle.
DesignViewerSettles ==
  /\ tool.name = "design-viewer"
  /\ \E k \in 1..Len(ViewerCalls) :
       /\ IsPending(ViewerCalls[k])
       /\ \/ /\ Settles(ViewerCalls[k], "ok", "value")
             /\ IF tpc = "all"
                   /\ \A j \in 1..Len(ViewerCalls) :
                        j # k => ~IsPending(ViewerCalls[j])
                THEN /\ tres' = TextResult("design_viewer", "four values")
                     /\ tpc' = "done"
                ELSE UNCHANGED <<tres, tpc>>
          \/ \E m \in Failures :
               /\ Settles(ViewerCalls[k], "fail", m)
               /\ IF tpc = "all"
                  THEN /\ tres' = Catch(ErrorOf(m))
                       /\ tpc' = "done"
                  ELSE UNCHANGED <<tres, tpc>>
  /\ UNCHANGED <<tool, local>>
  /\ UNCHANGED <<vars, pureVars, appVars>>

\* A faulty test: only an absent projectId creates a project.
NeedsProjectIfAbsent(projectId) == projectId = None

\* if (!projectId): undefined and "" are falsy
NeedsProject(projectId) == ~Truthy(projectId)

\* stitch.generateScreenFromText({ projectId, prompt, ... }) is called; the
\* client sends normalizeProjectId(options.projectId).
Generation(projectId, prompt) ==
  [projectId |-> projectId, sent |-> normalizeProjectId(projectId),
   prompt |-> prompt]

\* generate-design, up to its first await: createProject(projectTitle)
\* without a projectId, else generateScreenFromText.
GenerateDesign ==
  /\ tpc = "idle"
  /\ \E a \in ToolArgs("generate-design") :
       /\ tool' = [name |-> "generate-design", args |-> a]
       /\ IF NeedsProject(a.projectId)
          THEN /\ log' = Issued("createProject",
                                [title |-> projectTitle(a.prompt)])
               /\ tpc' = "creating"
               /\ UNCHANGED local
          ELSE /\ log' = Issued("generateScreenFromText",
                                Generation(a.projectId[1], a.prompt))
               /\ tpc' = "generating"
               /\ local' = [local EXCEPT !.projectId = a.projectId[1]]
  /\ UNCHANGED tres
  /\ UNCHANGED <<vars, pureVars, appVars>>

\* const project = await stitch.createProject(projectTitle);
\* projectId = project.name.replace(/^projects\//, "");
\* then generateScreenFromText is called.
GenerateDesignCreated ==
  /\ tool.name = "generate-design"
  /\ tpc = "creating"
  /\ \/ \E v \in NewProjects :
          /\ local' = [local EXCEPT !.projectId = normalizeProjectId(v.name)]
          /\ log' = Append(Append(log, [op |-> "createProject", ph |-> "ok",
                                        val |-> v]),
                           [op |-> "generateScreenFromText", ph |-> "call",
                            val |-> Generation(local'.projectId,
                                               tool.args.prompt)])
          /\ tpc' = "generating"
          /\ UNCHANGED tres
     \/ \E m \in Failures :
          /\ Settles("createProject", "fail", m)
          /\ tres' = Catch(ErrorOf(m))
          /\ tpc' = "done"
          /\ UNCHANGED local
  /\ UNCHANGED tool
  /\ UNCHANGED <<vars, pureVars, appVars>>

\* const imageData = result.screen?.screenshot?.downloadUrl || ""
ImageDataOf(s) == IF Truthy(s.screenshotUrl) THEN s.screenshotUrl[1] ELSE <<>>

\* The data of the generate_design result.
GenerateData(s, h) ==
  [screen |-> s, imageData |-> ImageDataOf(s),
   codeData |-> [html |-> h, css |-> <<>>], prompt |-> tool.args.prompt]

\* const result = await stitch.generateScreenFromText(...); the handler goes
\* on to downloadFile when the screen has an htmlCode.downloadUrl and
\* returns otherwise.
GenerateDesignGenerated ==
  /\ tool.name = "generate-design"
  /\ tpc = "generating"
  /\ \/ \E s \in GeneratedScreens :
          /\ local' = [local EXCEPT !.screen = s]
          /\ IF s.htmlUrl
             THEN /\ log' = Append(Append(log, [op |-> "generateScreenFromText",
                                                ph |-> "ok", val |-> s]),
                                   [op |-> "downloadFile", ph |-> "call",
                                    val |-> "htmlCode.downloadUrl"])
                  /\ tpc' = "downloading"
                  /\ UNCHANGED tres
             ELSE /\ Settles("generateScreenFromText", "ok", s)
                  /\ tres' = TextResult("generate_design", GenerateData(s, <<>>))
                  /\ tpc' = "done"
     \/ \E m \in Failures :
          /\ Settles("generateScreenFromText", "fail", m)
          /\ tres' = Catch(ErrorOf(m))
          /\ tpc' = "done"
          /\ UNCHANGED local
  /\ UNCHANGED tool
  /\ UNCHANGED <<vars, pureVars, appVars>>

\* A faulty handler: the code download is awaited outside the inner try, so
\* its rejection reaches the catch of the handler.
GenerateDesignDownloadedOrFails ==
  /\ tool.name = "generate-design"
  /\ tpc = "downloading"
  /\ \E o \in Outcomes :
       IF DownloadRejects(o)
       THEN /\ Settles("downloadFile", "fail", "body read failed")
            /\ tres' = Catch(ErrorOf("body read failed"))
       ELSE /\ Settles("downloadFile", "ok", Delivered(o, HtmlText(<<1>>)))
            /\ tres' = TextResult("generate_design",
                                  GenerateData(local.screen,
                                               Delivered(o, HtmlText(<<1>>))))
  /\ tpc' = "done"
  /\ UNCHANGED <<tool, local>>
  /\ UNCHANGED <<vars, pureVars, appVars>>

\* try { const html = await stitch.downloadFile(url); codeData = {html, css: ""} }
\* catch { /* Code download is optional */ }
GenerateDesignDownloaded ==
  /\ tool.name = "generate-design"
  /\ tpc = "downloading"
  /\ \E o \in Outcomes :
       IF DownloadRejects(o)
       THEN /\ Settles("downloadFile", "fail", "body read failed")
            /\ tres' = TextResult("generate_design",
                                  GenerateData(local.screen, <<>>))
       ELSE /\ Settles("downloadFile", "ok", Delivered(o, HtmlText(<<1>>)))
            /\ tres' = TextResult("generate_design",
                                  GenerateData(local.screen,
                                               Delivered(o, HtmlText(<<1>>))))
  /\ tpc' = "done"
  /\ UNCHANGED <<tool, local>>
  /\ UNCHANGED <<vars, pureVars, appVars>>

InitTools ==
  /\ NoTool
  /\ NoApp
  /\ NoPure
  /\ srv = [themes |-> {}, htmls |-> {}, csss |-> {}]
  /\ InitCalls

NextTools ==
  \/ ListProjects
  \/ ListProjectsReturns
  \/ ListScreens
  \/ ListScreensReturns
  \/ DesignViewer
  \/ DesignViewerSettles
  \/ GenerateDesign
  \/ GenerateDesignCreated
  \/ GenerateDesignGenerated
  \/ GenerateDesignDownloaded
  \/ ExtractDesignContext
  \/ ExtractDesignContextReturns
  \/ CreateProject
  \/ CreateProjectReturns

SpecTools == InitTools /\ [][NextTools]_toolVars

(***************************************************************************)
(* The exported functions, each applied on its own to a text made of       *)
(* fragments.  Next to every fragment table stands what the fragments      *)
(* hold (their color tokens, their families, their layout markers).  Every *)
(* fragment ends with a delimiter, so that no token spans two fragments.   *)
(***************************************************************************)

Rgb12 == <<"rgb", "(", "1", ",", "2", ")">>
Rgba12 == <<"rgb", "a", "(", "1", ",", "2", ")">>
Hsl12 == <<"hsl", "(", "1", ",", "2", ")">>
Hsla12 == <<"hsl", "a", "(", "1", ",", "2", ")">>

\* CSS for extractColors.
ColorFrags ==
  << <<"color", ":", "#", "a", "b", "0", ";">>,
     <<"color", ":", "#", "A", "B", "0", ";">>,
     <<"color", ":">> \o Rgb12 \o <<";">>,
     <<"color", ":">> \o Rgba12 \o <<";">>,
     <<"color", ":">> \o Hsl12 \o <<";">>,
     <<"color", ":">> \o Hsla12 \o <<";">>,
     <<"margin", ":", "1", "px", ";">>,
     <<"#", "a", "b", "0", "#", "a", "b", "0", "1", ";">> >>

\* The color tokens of each fragment of ColorFrags.
ColorTokens ==
  << << <<"#", "a", "b", "0">> >>,
     << <<"#", "A", "B", "0">> >>,
     <<Rgb12>>, <<Rgba12>>, <<Hsl12>>, <<Hsla12>>,
     <<>>,
     << <<"#", "a", "b", "0">>, <<"#", "a", "b", "0", "1">> >> >>

\* Tailwind config text for extractTailwindColors.
TailwindColorFrags ==
  << <<"primary", ":", " ", "'", "#", "A", "b", "0", "'", ",">>,
     <<"main", ":", "'", "#", "a", "B", "0", "'", ",">>,
     <<"\"", "x", "\"", ":", "\"", "#", "1", "2", "3", "4", "5", "6", "\"", ",">>,
     <<"DEFAULT", ":", " ", "#", "a", "b", "0", "1", " ", ",">>,
     <<"sans", ":", " ", "'", "a", "b", "'", ",">> >>

\* The key and the hex of each fragment of TailwindColorFrags.
TailwindColorPairs ==
  << << [name |-> <<"primary">>, hex |-> <<"#", "A", "b", "0">>] >>,
     << [name |-> <<"main">>, hex |-> <<"#", "a", "B", "0">>] >>,
     << [name |-> <<"x">>, hex |-> <<"#", "1", "2", "3", "4", "5", "6">>] >>,
     << [name |-> <<"DEFAULT">>, hex |-> <<"#", "a", "b", "0", "1">>] >>,
     <<>> >>

\* CSS for extractFonts.
FontFrags ==
  << <<"font-family", ":", " ", "'", "A", "b", "'", ";">>,
     <<"font-family", ":", "a", "b", ";">>,
     <<"font-family", ":", " ", "\"", "A", "b", "\"", " ", ";">>,
     <<"font-weight", ":", " ", "7", ";">>,
     <<"font-weight", ":", "9", ";">>,
     <<"font-size", ":", "1", "px", ";">>,
     <<"font-size", ":", " ", "2", "px", " ", ";">>,
     <<"font-weight", ":", " ", ";">>,
     <<"font-size", ":", "\n", ";">>,
     <<"color", ":", "#", "a", "b", "0", ";">> >>

\* What each fragment of FontFrags declares: the font-family value without
\* its quotes, the font-weight value, the font-size value (blanks trimmed).
FontDecls ==
  << [family |-> << <<"A", "b">> >>, weight |-> <<>>, size |-> <<>>],
     [family |-> << <<"a", "b">> >>, weight |-> <<>>, size |-> <<>>],
     [family |-> << <<"A", "b">> >>, weight |-> <<>>, size |-> <<>>],
     [family |-> <<>>, weight |-> << <<"7">> >>, size |-> <<>>],
     [family |-> <<>>, weight |-> << <<"9">> >>, size |-> <<>>],
     [family |-> <<>>, weight |-> <<>>, size |-> << <<"1", "px">> >>],
     [family |-> <<>>, weight |-> <<>>, size |-> << <<"2", "px">> >>],
     [family |-> <<>>, weight |-> << <<>> >>, size |-> <<>>],
     [family |-> <<>>, weight |-> <<>>, size |-> << <<>> >>],
     [family |-> <<>>, weight |-> <<>>, size |-> <<>>] >>

\* Tailwind config text for extractTailwindFonts.
FontConfigFrags ==
  << <<"fontFamily", ":", "[", "'", "A", "b", "'", "]", ",">>,
     <<"fontFamily", ":", " ", "{", "sans", ":", "[", "\"", "a", " ", "b",
       "\"", ",", " ", "'", "x", "'", "]", "}", ",">>,
     <<"fontFamily", ":", "[", "'", "a", "b", "'", "]", ",">>,
     <<"primary", ":", "'", "#", "a", "b", "0", "'", ",">> >>

\* The family the fontFamily pattern finds in each fragment.
FontConfigFamilies ==
  << << <<"A", "b">> >>, << <<"a", " ", "b">> >>, << <<"a", "b">> >>, <<>> >>

GoogleLink(family) ==
  <<"<link href=", "\"", "fonts.googleapis.com/css2?family=">> \o family
    \o <<"\"", ">">>

\* HTML for extractTailwindFonts: Google Fonts links.
FontLinkFrags ==
  << GoogleLink(<<"A", "b", ":", "4">>),
     GoogleLink(<<"a", "+", "b", "&", "x">>),
     GoogleLink(<<"x", "%", "3", "A", "b">>),
     GoogleLink(<<"a", "%", "2", "B", "b", ":", "%", "3", "A">>),
     GoogleLink(<<"1", "0", "0", "%">>),
     <<"<div", " ", "class", "=", "\"", "flex", "\"", ">">> >>

\* The family value of the link of each fragment, as written in the URL.
FontLinkValues ==
  << << <<"A", "b", ":", "4">> >>,
     << <<"a", "+", "b">> >>,
     << <<"x", "%", "3", "A", "b">> >>,
     << <<"a", "%", "2", "B", "b", ":", "%", "3", "A">> >>,
     << <<"1", "0", "0", "%">> >>,
     <<>> >>

\* HTML for extractLayouts.
LayoutFrags ==
  << <<"display", ":", " ", "flex", ";">>,
     <<"display", ":", "grid", ";">>,
     <<"position", ":", " ", "absolute", ";">>,
     <<"class", "=", "\"", "flex", "-", "1", "\"", " ">>,
     <<"flex", "x", " ">>,
     <<"display", ":", "flex", "x", ";">>,
     <<"_", "grid", " ">>,
     <<"position", ":", "absolute", "_", ";">>,
     <<"absolute", " ">>,
     <<"<div", ">">> >>

\* The layout types each fragment of LayoutFrags has a marker of.
LayoutMarks ==
  << {"Flexbox"}, {"Grid"}, {"Absolute"}, {"Flexbox"}, {}, {"Flexbox"}, {},
     {"Absolute"}, {"Absolute"}, {} >>

\* CSS for extractSpacing.
SpacingFrags ==
  << <<"margin", ":", " ", "1", "0", "px", ";">>,
     <<"padding", ":", " ", "2", "0", "px", ";">>,
     <<"gap", ":", " ", "8", "px", ";">>,
     <<"margin", ":", "1", "0", "px", " ", ";">>,
     <<"gap", ":", " ", "1", "0", "px", ";">>,
     <<"padding", ":", "\n", "8", "px", ";">>,
     <<"color", ":", "#", "a", "b", "0", ";">>,
     <<"gap", "x", ":", " ", "8", "px", ";">> >>

\* The (property, value) pair each fragment of SpacingFrags declares.
SpacingPairs ==
  << <<[name |-> <<"margin">>, value |-> <<"1", "0", "px">>]>>,
     <<[name |-> <<"padding">>, value |-> <<"2", "0", "px">>]>>,
     <<[name |-> <<"gap">>, value |-> <<"8", "px">>]>>,
     <<[name |-> <<"margin">>, value |-> <<"1", "0", "px">>]>>,
     <<[name |-> <<"gap">>, value |-> <<"1", "0", "px">>]>>,
     <<[name |-> <<"padding">>, value |-> <<"8", "px">>]>>,
     <<>>,
     <<>> >>

\* The symbols project ids are made of.
ProjectIdSyms == <<"projects", "/", "7", "p">>

\* The project id given by the numbers of its symbols.
IdText(ids) == [i \in 1..Len(ids) |-> ProjectIdSyms[ids[i]]]

\* The most fragments of a text, the most fragments of each of the two
\* texts of extractTailwindFonts, the most symbols of a project id.
MaxPureFrags == 3
MaxPairFrags == 2
MaxIdLen == 4

PureFns ==
  {"extractColors", "extractTailwindColors", "extractFonts",
   "extractTailwindFonts", "extractLayouts", "normalizeProjectId",
   "extractSpacing"}

\* The arguments of a function: fragment numbers of its one or two texts.
PureArgs(f) ==
  CASE f = "extractColors" ->
         {[a |-> x, b |-> <<>>] : x \in FragSeqs(Len(ColorFrags), MaxPureFrags)}
    [] f = "extractTailwindColors" ->
         {[a |-> x, b |-> <<>>] :
            x \in FragSeqs(Len(TailwindColorFrags), MaxPureFrags)}
    [] f = "extractFonts" ->
         {[a |-> x, b |-> <<>>] : x \in FragSeqs(Len(FontFrags), MaxPureFrags)}
    [] f = "extractTailwindFonts" ->
         {[a |-> x, b |-> y] :
            x \in FragSeqs(Len(FontConfigFrags), MaxPairFrags),
            y \in FragSeqs(Len(FontLinkFrags), MaxPairFrags)}
    [] f = "extractLayouts" ->
         {[a |-> x, b |-> <<>>] : x \in FragSeqs(Len(LayoutFrags), MaxPureFrags)}
    [] f = "normalizeProjectId" ->
         {[a |-> x, b |-> <<>>] : x \in FragSeqs(Len(ProjectIdSyms), MaxIdLen)}
    [] f = "extractSpacing" ->
         {[a |-> x, b |-> <<>>] : x \in FragSeqs(Len(SpacingFrags), MaxPureFrags)}

Pending == [state |-> "pending", value |-> <<>>]
Value(v) == [state |-> "returned", value |-> v]
Threw(e) == [state |-> "threw", value |-> <<e>>]

InitPure ==
  /\ \E f \in PureFns :
       /\ fn = f
       /\ arg \in PureArgs(f)
  /\ out = Pending
  /\ srv = [themes |-> {}, htmls |-> {}, csss |-> {}]
  /\ InitCalls
  /\ NoTool
  /\ NoApp

Apply(f, v) ==
  /\ fn = f
  /\ out.state = "pending"
  /\ out' = v
  /\ UNCHANGED <<fn, arg, vars, toolVars, appVars>>

ApplyExtractColors ==
  Apply("extractColors", Value(extractColors(Text(ColorFrags, arg.a))))

ApplyExtractTailwindColors ==
  Apply("extractTailwindColors",
        Value(extractTailwindColors(Text(TailwindColorFrags, arg.a))))

ApplyExtractFonts ==
  Apply("extractFonts", Value(extractFonts(Text(FontFrags, arg.a))))

ApplyExtractTailwindFonts ==
  Apply("extractTailwindFonts",
        IF TailwindFontsThrows(Text(FontConfigFrags, arg.a),
                               Text(FontLinkFrags, arg.b))
        THEN Threw("URIError")
        ELSE Value(extractTailwindFonts(Text(FontConfigFrags, arg.a),
                                        Text(FontLinkFrags, arg.b))))

ApplyExtractLayouts ==
  Apply("extractLayouts", Value(extractLayouts(Text(LayoutFrags, arg.a))))

ApplyNormalizeProjectId ==
  Apply("normalizeProjectId", Value(normalizeProjectId(IdText(arg.a))))

ApplyExtractSpacing ==
  Apply("extractSpacing", Value(extractSpacing(Text(SpacingFrags, arg.a))))

NextPure ==
  \/ ApplyExtractColors
  \/ ApplyExtractTailwindColors
  \/ ApplyExtractFonts
  \/ ApplyExtractTailwindFonts
  \/ ApplyExtractLayouts
  \/ ApplyNormalizeProjectId
  \/ ApplyExtractSpacing

SpecPure == InitPure /\ [][NextPure]_pureVars

(***************************************************************************)
(* The operations of StitchClient that take a projectId.  One operation is *)
(* called with a project id; `log` keeps the requests it sends, each with  *)
(* the project id of its path (or of its arguments, for the MCP call).     *)
(***************************************************************************)

ClientOps ==
  {"listScreens", "getScreen", "generateScreenFromText", "fetchScreenImage",
   "fetchScreenCode", "extractDesignContext"}

\* The most symbols of the project id an operation is called with.
MaxClientIdLen == 6

clientVars == <<fn, arg, out, log>>

InitClient ==
  /\ fn \in ClientOps
  /\ arg \in {[a |-> x, b |-> <<>>] :
                x \in FragSeqs(Len(ProjectIdSyms), MaxClientIdLen)}
  /\ out = Pending
  /\ srv = [themes |-> {}, htmls |-> {}, csss |-> {}]
  /\ InitCalls
  /\ NoTool
  /\ NoApp

\* this.request(method, path) or this.mcpRequest(tool, args) is sent with
\* the project id `pid`.
Sends(request, pid) ==
  log' = Append(log, [op |-> request, ph |-> "call", val |-> pid])

\* The request resolves and the operation returns, or the request rejects
\* and the operation rejects with it.
Answered ==
  \/ out' = Value(<<"response">>)
  \/ \E m \in Failures : out' = Threw(m)

\* The request resolves and the operation goes on, or the request rejects
\* and the operation rejects with it.
AnsweredGoesOn ==
  \/ out' = out
  \/ \E m \in Failures : out' = Threw(m)

\* The operation f is called and has sent n requests so far.
Running(f, n) == fn = f /\ out.state = "pending" /\ Len(log) = n

\* getScreen: const pid = normalizeProjectId(projectId);
\* this.request("GET", `/projects/${pid}/screens/${screenId}`)
getScreenPath(projectId) == normalizeProjectId(projectId)

\* listScreens: const pid = normalizeProjectId(projectId);
\* this.request("GET", `/projects/${pid}/screens`)
ClientListScreens ==
  /\ Running("listScreens", 0)
  /\ Sends("GET screens", normalizeProjectId(IdText(arg.a)))
  /\ Answered
  /\ UNCHANGED <<fn, arg, vars, tool, tpc, local, tres, appVars>>

ClientGetScreen ==
  /\ Running("getScreen", 0)
  /\ Sends("GET screen", getScreenPath(IdText(arg.a)))
  /\ Answered
  /\ UNCHANGED <<fn, arg, vars, tool, tpc, local, tres, appVars>>

\* generateScreenFromText: const projectId = normalizeProjectId(options.projectId);
\* this.mcpRequest("generate_screen_from_text", { projectId, prompt })
ClientGenerateScreenFromText ==
  /\ Running("generateScreenFromText", 0)
  /\ Sends("generate_screen_from_text", normalizeProjectId(IdText(arg.a)))
  /\ Answered
  /\ UNCHANGED <<fn, arg, vars, tool, tpc, local, tres, appVars>>

\* fetchScreenImage: const pid = normalizeProjectId(projectId);
\* const screen = await this.getScreen(pid, screenId)
ClientFetchScreenImage ==
  /\ Running("fetchScreenImage", 0)
  /\ Sends("GET screen", getScreenPath(normalizeProjectId(IdText(arg.a))))
  /\ Answered
  /\ UNCHANGED <<fn, arg, vars, tool, tpc, local, tres, appVars>>

\* The path id of the getScreen of fetchScreenCode:
\* const pid = normalizeProjectId(projectId); this.getScreen(pid, screenId)
fetchScreenCodePath(projectId) == getScreenPath(normalizeProjectId(projectId))

\* fetchScreenCode; its downloads carry no project id (see DownloadHtml and
\* DownloadCss).
ClientFetchScreenCode ==
  /\ Running("fetchScreenCode", 0)
  /\ Sends("GET screen", fetchScreenCodePath(IdText(arg.a)))
  /\ Answered
  /\ UNCHANGED <<fn, arg, vars, tool, tpc, local, tres, appVars>>

\* extractDesignContext: const pid = normalizeProjectId(projectId);
\* const screen = await this.getScreen(pid, screenId)
ClientExtractGetScreen ==
  /\ Running("extractDesignContext", 0)
  /\ Sends("GET screen", getScreenPath(normalizeProjectId(IdText(arg.a))))
  /\ AnsweredGoesOn
  /\ UNCHANGED <<fn, arg, vars, tool, tpc, local, tres, appVars>>

\* extractDesignContext: await this.fetchScreenCode(pid, screenId)
ClientExtractFetchScreenCode ==
  /\ Running("extractDesignContext", 1)
  /\ Sends("GET screen", fetchScreenCodePath(normalizeProjectId(IdText(arg.a))))
  /\ Answered
  /\ UNCHANGED <<fn, arg, vars, tool, tpc, local, tres, appVars>>

NextClient ==
  \/ ClientListScreens
  \/ ClientGetScreen
  \/ ClientGenerateScreenFromText
  \/ ClientFetchScreenImage
  \/ ClientFetchScreenCode
  \/ ClientExtractGetScreen
  \/ ClientExtractFetchScreenCode

SpecClient == InitClient /\ [][NextClient]_clientVars

(***************************************************************************)
(* Properties.                                                             *)
(***************************************************************************)

\* Call c has returned a DesignContext.
Returned(c) == pc[c] = "done"

\* The field f of the theme of the screen of call c, None without a theme.
ThemeField(c, f) == IF screen[c] = None THEN None ELSE screen[c][1][f]

\* Whether a is a suffix of b.
IsSuffix(a, b) ==
  /\ Len(a) <= Len(b)
  /\ a = SubSeq(b, Len(b) - Len(a) + 1, Len(b))

\* Whether the elements of a sequence are pairwise different.
Distinct(s) == \A i, j \in 1..Len(s) : i # j => s[i] # s[j]

\* The ways the download of a file can fail.
DownloadFailures == {"fetch_rejects", "status_not_ok", "body_fails"}

\* C1: for every way the download of the HTML or of the CSS file can fail
\* (fetch rejects, status not OK, reading the body fails) downloadFile
\* resolves to the empty string and extractDesignContext does not reject.
C1_DownloadFailureDegrades ==
  \A c \in Calls :
    /\ dl[c].html \in DownloadFailures => err[c] # "download" /\ html[c] = <<>>
    /\ dl[c].css \in DownloadFailures => err[c] # "download" /\ css[c] = <<>>

\* C2: for every pair of CSS text and HTML text, Google Fonts family values
\* that are not valid percent-encoding included, no extractor stage raises
\* an exception.
C2_ExtractorsNeverRaise ==
  \A c \in Calls : err[c] # "URIError"

\* C3 as stated: in every returned DesignContext no two entries of colors
\* have hex values that are equal after lowercasing.
C3_NoTwoColorsEqualIgnoringCase ==
  \A c \in Calls :
    Returned(c) => Distinct([k \in 1..Len(result[c].colors) |->
                               toLowerCase(result[c].colors[k].hex)])

\* C3 amended: in every returned DesignContext the colors extracted from
\* CSS are pairwise different as exact strings, the colors of the Tailwind
\* config are pairwise different after lowercasing, and the theme color
\* differs after lowercasing from every other entry.
C3_ColorsDistinctWithinSource ==
  \A c \in Calls :
    Returned(c) =>
      LET cs == result[c].colors
      IN  \A i, j \in 1..Len(cs) :
            i # j =>
              /\ (cs[i].usage = "Extracted from CSS" /\ cs[j].usage = cs[i].usage)
                   => cs[i].hex # cs[j].hex
              /\ (cs[i].usage = "Tailwind theme" /\ cs[j].usage = cs[i].usage)
                   => toLowerCase(cs[i].hex) # toLowerCase(cs[j].hex)
              /\ cs[i].usage = "Theme primary color"
                   => toLowerCase(cs[i].hex) # toLowerCase(cs[j].hex)

\* A returned context with a color from CSS and a color of the Tailwind
\* config that are equal after lowercasing, which keep the theme color out.
C3_Witness ==
  \E c \in Calls :
    /\ Returned(c)
    /\ Truthy(ThemeField(c, "customColor"))
    /\ result[c].colors = extracted[c].colors
    /\ \E j, k \in 1..Len(result[c].colors) :
         /\ result[c].colors[j].usage = "Extracted from CSS"
         /\ result[c].colors[k].usage = "Tailwind theme"
         /\ toLowerCase(result[c].colors[j].hex)
              = toLowerCase(result[c].colors[k].hex)

\* C4 as stated: in every returned DesignContext no two entries of fonts
\* have family values that are equal after lowercasing.
C4_NoTwoFontsEqualIgnoringCase ==
  \A c \in Calls :
    Returned(c) => Distinct([k \in 1..Len(result[c].fonts) |->
                               toLowerCase(result[c].fonts[k].family)])

\* C4 amended: in every returned DesignContext the families extracted from
\* CSS are pairwise different as exact strings, the families of the Tailwind
\* config and of the Google Fonts links are pairwise different after
\* lowercasing, and the lowercased theme font name occurs in no other
\* entry's lowercased family.
C4_FontsDistinctWithinSource ==
  \A c \in Calls :
    Returned(c) =>
      LET fs == result[c].fonts
      IN  \A i, j \in 1..Len(fs) :
            i # j =>
              /\ (fs[i].usage = "Extracted from CSS" /\ fs[j].usage = fs[i].usage)
                   => fs[i].family # fs[j].family
              /\ ({fs[i].usage, fs[j].usage} \subseteq {"Tailwind theme", "Google Fonts"})
                   => toLowerCase(fs[i].family) # toLowerCase(fs[j].family)
              /\ fs[i].usage = "Theme font"
                   => ~includes(toLowerCase(fs[j].family), toLowerCase(fs[i].family))

\* A returned context with the theme font before two families from CSS
\* that are equal after lowercasing.
C4_Witness ==
  \E c \in Calls :
    /\ Returned(c)
    /\ Len(result[c].fonts) = 3
    /\ result[c].fonts[1].usage = "Theme font"
    /\ result[c].fonts[2].usage = "Extracted from CSS"
    /\ result[c].fonts[3].usage = "Extracted from CSS"
    /\ toLowerCase(result[c].fonts[2].family)
         = toLowerCase(result[c].fonts[3].family)

\* Whether a CSS file repeats one fragment.
Repeats(ids) == Len(ids) >= 2 /\ \A k \in 1..Len(ids) : ids[k] = ids[1]

\* C5: no two entries of a result of extractSpacing, and so of the spacing
\* of a returned DesignContext, have the same (name, value) pair; a
\* declaration repeated any number of times yields one entry.
C5_SpacingPairsDistinct ==
  \A c \in Calls :
    /\ Distinct(extractSpacing(CssText(css[c])))
    /\ Repeats(css[c]) =>
         extractSpacing(CssText(css[c])) = extractSpacing(CssText(<<css[c][1]>>))
    /\ Returned(c) => Distinct(result[c].spacing)

\* A returned context for a CSS file that repeats a margin declaration, with
\* the one entry it yields.
C5_Witness ==
  \E c \in Calls :
    /\ Returned(c)
    /\ Repeats(css[c])
    /\ result[c].spacing = <<[name |-> <<"margin">>, value |-> <<"1", "px">>]>>

\* C6: the theme fallback never removes, replaces, reorders or modifies an
\* extracted entry: for colors, fonts and layouts the sequence before the
\* merge is a suffix of the final one, at most one entry is added, it is a
\* theme entry and it is added at index 0; spacing is unchanged.
C6_ThemeMergeKeepsExtracted ==
  \A c \in Calls :
    Returned(c) =>
      /\ IsSuffix(extracted[c].colors, result[c].colors)
      /\ IsSuffix(extracted[c].fonts, result[c].fonts)
      /\ IsSuffix(extracted[c].layouts, result[c].layouts)
      /\ Len(result[c].colors) <= Len(extracted[c].colors) + 1
      /\ Len(result[c].fonts) <= Len(extracted[c].fonts) + 1
      /\ Len(result[c].layouts) <= Len(extracted[c].layouts) + 1
      /\ Len(result[c].colors) > Len(extracted[c].colors)
           => result[c].colors[1].usage = "Theme primary color"
      /\ Len(result[c].fonts) > Len(extracted[c].fonts)
           => result[c].fonts[1].usage = "Theme font"
      /\ result[c].spacing = extracted[c].spacing

\* A returned context in which the theme color was added to extracted
\* colors and the color mode to detected layouts.
C6_Witness ==
  \E c \in Calls :
    /\ Returned(c)
    /\ extracted[c].colors # <<>>
    /\ Len(result[c].colors) = Len(extracted[c].colors) + 1
    /\ extracted[c].layouts # <<>>
    /\ Len(result[c].layouts) = Len(extracted[c].layouts) + 1

\* The theme color entry of a customColor.
PrimaryEntry(customColor) ==
  [name |-> <<"primary">>, hex |-> customColor, usage |-> "Theme primary color"]

\* Whether an extracted color has a hex equal to customColor ignoring case.
ColorExtracted(c, customColor) ==
  \E k \in 1..Len(extracted[c].colors) :
    toLowerCase(extracted[c].colors[k].hex) = toLowerCase(customColor)

\* Whether colors is as stated for one call and the customColor of its theme.
PrimaryIffNotExtracted(c, customColor) ==
  /\ (result[c].colors # <<>> /\ result[c].colors[1] = PrimaryEntry(customColor))
       <=> ~ColorExtracted(c, customColor)
  /\ ~ColorExtracted(c, customColor)
       => result[c].colors = <<PrimaryEntry(customColor)>> \o extracted[c].colors
  /\ ColorExtracted(c, customColor) => result[c].colors = extracted[c].colors

\* C7 as stated: when the theme has a string customColor, colors starts with
\* {primary, customColor, 'Theme primary color'} if and only if no extracted
\* color has a hex equal to customColor ignoring case; otherwise colors is
\* the extracted sequence.
C7_PrimaryIffNotExtracted ==
  \A c \in Calls :
    (Returned(c) /\ ThemeField(c, "customColor") # None)
      => PrimaryIffNotExtracted(c, ThemeField(c, "customColor")[1])

\* C7 amended: the same for a non-empty string customColor; with an empty
\* string customColor colors is the extracted sequence.
C7_PrimaryIffNotExtractedNonEmpty ==
  \A c \in Calls :
    (Returned(c) /\ ThemeField(c, "customColor") # None)
      => IF ThemeField(c, "customColor")[1] # <<>>
         THEN PrimaryIffNotExtracted(c, ThemeField(c, "customColor")[1])
         ELSE result[c].colors = extracted[c].colors

\* A returned context whose theme color is kept out by an extracted color
\* spelled in another case.
C7_Witness ==
  \E c \in Calls :
    /\ Returned(c)
    /\ Truthy(ThemeField(c, "customColor"))
    /\ ColorExtracted(c, ThemeField(c, "customColor")[1])
    /\ \A k \in 1..Len(extracted[c].colors) :
         extracted[c].colors[k].hex # ThemeField(c, "customColor")[1]

\* The theme font entry of a theme font.
ThemeFontEntry(font) ==
  [family |-> ThemeFontName(font), weight |-> <<"4", "0", "0">>,
   size |-> <<"1", "6", "px">>, usage |-> "Theme font"]

\* Whether an extracted family contains the theme font name ignoring case.
FontExtracted(c, font) ==
  \E k \in 1..Len(extracted[c].fonts) :
    includes(toLowerCase(extracted[c].fonts[k].family),
             toLowerCase(ThemeFontName(font)))

\* Whether fonts is as stated for one call and the font of its theme.
ThemeFontIffNotExtracted(c, font) ==
  /\ ~FontExtracted(c, font)
       => result[c].fonts = <<ThemeFontEntry(font)>> \o extracted[c].fonts
  /\ FontExtracted(c, font) => result[c].fonts = extracted[c].fonts

C9_ColorModeFirst ==
  \A c \in Calls :
    (Returned(c) /\ Truthy(ThemeField(c, "colorMode")))
      => result[c].layouts =
           <<[type |-> ThemeField(c, "colorMode")[1],
              description |-> ThemeField(c, "colorMode")[1] \o <<" color mode">>]>>
           \o (IF html[c] = <<>> THEN <<>> ELSE extractLayouts(HtmlText(html[c])))

\* A returned context with the color mode before a detected layout.
C9_Witness ==
  \E c \in Calls :
    /\ Returned(c)
    /\ Truthy(ThemeField(c, "colorMode"))
    /\ Len(result[c].layouts) = 2
    /\ result[c].layouts[2].type = <<"Flexbox">>

StageOf(usage) ==
  CASE usage \in {"Theme primary color", "Theme font"} -> 0
    [] usage = "Extracted from CSS" -> 1
    [] usage = "Tailwind theme" -> 2
    [] usage = "Google Fonts" -> 3

\* The theme entry first, then the plain-CSS entries, then the Tailwind and
\* Google Fonts entries.
InStageOrder(entries) ==
  \A i, j \in 1..Len(entries) :
    i < j => StageOf(entries[i].usage) <= StageOf(entries[j].usage)

HasUsage(entries, usages) ==
  \E k \in 1..Len(entries) : entries[k].usage \in usages

\* Whether the combined CSS of call c is non-empty: its CSS file has a
\* fragment or its HTML has the <style> fragment.
HasCombinedCss(c) ==
  css[c] # <<>> \/ \E i \in 1..Len(html[c]) : html[c][i] = 1

\* The layout entry of a color mode.
ModeLayout(colorMode) ==
  [type |-> colorMode, description |-> colorMode \o <<" color mode">>]

\* The three theme fields of call c, each applied by itself.
ThemeFieldsApplied(c) ==
  /\ IF Truthy(ThemeField(c, "customColor"))
     THEN PrimaryIffNotExtracted(c, ThemeField(c, "customColor")[1])
     ELSE result[c].colors = extracted[c].colors
  /\ IF Truthy(ThemeField(c, "font"))
     THEN ThemeFontIffNotExtracted(c, ThemeField(c, "font")[1])
     ELSE result[c].fonts = extracted[c].fonts
  /\ IF Truthy(ThemeField(c, "colorMode"))
     THEN result[c].layouts =
            <<ModeLayout(ThemeField(c, "colorMode")[1])>> \o extracted[c].layouts
     ELSE result[c].layouts = extracted[c].layouts

\* C20: extractDesignContext applies its stages in a fixed order under fixed
\* gates: plain-CSS colors, fonts and spacing only with a non-empty combined
\* CSS; Tailwind entries and detected layouts only with a non-empty HTML;
\* theme entries only with a theme object, each of customColor, font and
\* colorMode applied whether or not the other two are present; the entries
\* of a list stand in the order theme, plain CSS, Tailwind, Google Fonts.
C20_StagesUnderGatesInOrder ==
  \A c \in Calls :
    Returned(c) =>
      /\ ~HasCombinedCss(c) =>
           /\ ~HasUsage(result[c].colors, {"Extracted from CSS"})
           /\ ~HasUsage(result[c].fonts, {"Extracted from CSS"})
           /\ result[c].spacing = <<>>
      /\ html[c] = <<>> =>
           /\ ~HasUsage(result[c].colors, {"Tailwind theme"})
           /\ ~HasUsage(result[c].fonts, {"Tailwind theme", "Google Fonts"})
           /\ \A k \in 1..Len(result[c].layouts) :
                result[c].layouts[k].type
                  \notin {<<"Flexbox">>, <<"Grid">>, <<"Absolute">>}
      /\ screen[c] = None => result[c] = extracted[c]
      /\ ~HasUsage(extracted[c].colors, {"Theme primary color"})
      /\ ~HasUsage(extracted[c].fonts, {"Theme font"})
      /\ screen[c] # None => ThemeFieldsApplied(c)
      /\ result[c].spacing = extracted[c].spacing
      /\ InStageOrder(result[c].colors)
      /\ InStageOrder(result[c].fonts)

\* A theme with a colorMode only, no HTML and a CSS file with a color: the
\* plain-CSS color stands alone and the color mode is the only layout.
C20_Witness ==
  \E c \in Calls :
    /\ Returned(c)
    /\ screen[c] # None
    /\ ThemeField(c, "customColor") = None
    /\ ThemeField(c, "font") = None
    /\ Truthy(ThemeField(c, "colorMode"))
    /\ html[c] = <<>>
    /\ css[c] # <<>>
    /\ Len(result[c].colors) = 1
    /\ result[c].colors[1].usage = "Extracted from CSS"
    /\ result[c].layouts = <<ModeLayout(<<"DARK">>)>>

(***************************************************************************)
(* Properties of the exported functions (SpecPure).                        *)
(***************************************************************************)

\* The function f was applied and returned.
Applied(f) == fn = f /\ out.state = "returned"

\* What the fragments of a text hold, by a table of the fragments.
Held(table, ids) == Concat([i \in 1..Len(ids) |-> table[ids[i]]])

\* The positions of a sequence of keys where a key appears for the first time.
FirstIndices(keys) ==
  {k \in 1..Len(keys) : \A j \in 1..(k - 1) : keys[j] # keys[k]}

\* The elements of xs at the positions I, from position k on, in order.
RECURSIVE PickAt(_, _, _)
PickAt(xs, I, k) ==
  IF k > Len(xs) THEN <<>>
  ELSE (IF k \in I THEN <<xs[k]>> ELSE <<>>) \o PickAt(xs, I, k + 1)

\* The first element of xs for each key, in order of first appearance.
FirstOfEach(xs, keys) == PickAt(xs, FirstIndices(keys), 1)

Digits == <<"1", "2", "3", "4", "5", "6", "7", "8", "9">>

\* C13: extractColors returns exactly the distinct color tokens of the CSS
\* (hex literals, rgb()/rgba(), hsl()/hsla() strings, distinct as exact
\* strings) in order of first appearance; the i-th entry is named color-i;
\* there are as many entries as distinct tokens, none without a token.
C13_ColorsAreDistinctTokensInOrder ==
  Applied("extractColors") =>
    LET tokens == Held(ColorTokens, arg.a)
        expected == FirstOfEach(tokens, tokens)
    IN  /\ Len(out.value) = Cardinality({tokens[k] : k \in 1..Len(tokens)})
        /\ out.value = [i \in 1..Len(expected) |->
                          [name |-> <<"color-", Digits[i]>>,
                           hex |-> expected[i],
                           usage |-> "Extracted from CSS"]]

\* Four tokens, one of them repeated and two differing in case only: three
\* entries, the third named color-3.
C13_Witness ==
  /\ Applied("extractColors")
  /\ arg.a = <<8, 2, 1>>
  /\ Len(out.value) = 3
  /\ out.value[3] = [name |-> <<"color-", "3">>, hex |-> <<"#", "A", "B", "0">>,
                     usage |-> "Extracted from CSS"]

\* C14: extractTailwindColors returns one entry per distinct lowercased hex,
\* in order of first appearance, with the key name and the hex spelling of
\* the first occurrence and usage 'Tailwind theme'.
C14_TailwindColorsFirstKeyWins ==
  Applied("extractTailwindColors") =>
    LET pairs == Held(TailwindColorPairs, arg.a)
        expected ==
          FirstOfEach(pairs, [k \in 1..Len(pairs) |-> toLowerCase(pairs[k].hex)])
    IN  out.value = [i \in 1..Len(expected) |->
                       [name |-> expected[i].name, hex |-> expected[i].hex,
                        usage |-> "Tailwind theme"]]

\* The same hex under two keys and in two spellings, then another hex.
C14_Witness ==
  /\ Applied("extractTailwindColors")
  /\ arg.a = <<2, 1, 3>>
  /\ Len(out.value) = 2
  /\ out.value[1].name = <<"main">>
  /\ out.value[1].hex = <<"#", "a", "B", "0">>
  /\ out.value[2].name = <<"x">>

\* The font-family, font-weight and font-size values the fragments declare.
DeclaredFonts(ids, field) ==
  Concat([i \in 1..Len(ids) |-> FontDecls[ids[i]][field]])

\* One entry per distinct family in first-appearance order, all with the
\* given weight and size.
FontsWith(ids, weight, size) ==
  LET families == DeclaredFonts(ids, "family")
      expected == FirstOfEach(families, families)
  IN  [i \in 1..Len(expected) |->
         [family |-> expected[i], weight |-> weight, size |-> size,
          usage |-> "Extracted from CSS"]]

\* The first declared value, or the default when nothing is declared.
FirstDeclared(values, default) ==
  IF values = <<>> THEN default ELSE values[1]

\* The first declared value, or the default when nothing is declared or the
\* first declared value is blank.
FirstDeclaredNonBlank(values, default) ==
  IF values = <<>> \/ values[1] = <<>> THEN default ELSE values[1]

\* C15 as stated: one entry per distinct font-family value in
\* first-appearance order, every entry with the first font-weight and the
\* first font-size value of the CSS, '400' and '16px' when the CSS has no
\* such declaration.
C15_FontsFirstWeightAndSize ==
  Applied("extractFonts") =>
    out.value =
      FontsWith(arg.a,
                FirstDeclared(DeclaredFonts(arg.a, "weight"), <<"4", "0", "0">>),
                FirstDeclared(DeclaredFonts(arg.a, "size"), <<"1", "6", "px">>))

\* C15 as the code has it: the defaults also apply when the first
\* font-weight (font-size) declaration has a blank value.
C15_FontsFirstNonBlankWeightAndSize ==
  Applied("extractFonts") =>
    out.value =
      FontsWith(arg.a,
                FirstDeclaredNonBlank(DeclaredFonts(arg.a, "weight"),
                                      <<"4", "0", "0">>),
                FirstDeclaredNonBlank(DeclaredFonts(arg.a, "size"),
                                      <<"1", "6", "px">>))

\* Two weights and a family: the family carries the first weight and the
\* default size.
C15_Witness ==
  /\ Applied("extractFonts")
  /\ arg.a = <<5, 1, 4>>
  /\ out.value = <<[family |-> <<"A", "b">>, weight |-> <<"9">>,
                    size |-> <<"1", "6", "px">>, usage |-> "Extracted from CSS"]>>

\* The family the code reports for each Google Fonts link of the fragments.
FontLinkFamilies ==
  << << <<"A", "b">> >>, << <<"a", " ", "b">> >>, << <<"x">> >>,
     << <<"a", " ", "b">> >>, <<>>, <<>> >>

\* Entries {family, '400', '16px', usage}, without the empty families.
FontsOfUsage(families, usage) ==
  LET kept == SelectSeq(families, LAMBDA f : f # <<>>)
  IN  [i \in 1..Len(kept) |->
         [family |-> kept[i], weight |-> <<"4", "0", "0">>,
          size |-> <<"1", "6", "px">>, usage |-> usage]]

\* The first entry of each lowercased family.
FirstOfEachFamily(fonts) ==
  FirstOfEach(fonts, [k \in 1..Len(fonts) |-> toLowerCase(fonts[k].family)])

\* C16: extractTailwindFonts returns the Tailwind-config families first and
\* the Google Fonts families after them, no two entries equal after
\* lowercasing the family; a family of both sources appears once, with
\* usage 'Tailwind theme'.
C16_TailwindFontsConfigFirstSeenOnce ==
  Applied("extractTailwindFonts") =>
    /\ out.value =
         FirstOfEachFamily(
           FontsOfUsage(Held(FontConfigFamilies, arg.a), "Tailwind theme")
           \o FontsOfUsage(Held(FontLinkFamilies, arg.b), "Google Fonts"))
    /\ \A i, j \in 1..Len(out.value) :
         /\ i # j => toLowerCase(out.value[i].family)
                       # toLowerCase(out.value[j].family)
         /\ (i < j /\ out.value[i].usage = "Google Fonts")
              => out.value[j].usage = "Google Fonts"

\* "a b" is in the config and in a link, "Ab" in a link only.
C16_Witness ==
  /\ Applied("extractTailwindFonts")
  /\ arg.a = <<2>>
  /\ arg.b = <<1, 2>>
  /\ Len(out.value) = 2
  /\ out.value[1].family = <<"a", " ", "b">>
  /\ out.value[1].usage = "Tailwind theme"
  /\ out.value[2].family = <<"A", "b">>
  /\ out.value[2].usage = "Google Fonts"

AllLayouts ==
  <<[type |-> <<"Flexbox">>, description |-> <<"Uses CSS Flexbox for layout">>],
    [type |-> <<"Grid">>, description |-> <<"Uses CSS Grid for layout">>],
    [type |-> <<"Absolute">>, description |-> <<"Uses absolute positioning">>]>>

\* C17: extractLayouts returns a subsequence of [Flexbox, Grid, Absolute],
\* each type at most once; a type is present exactly when the HTML has its
\* 'display:' / 'position:' declaration (with or without a space) or the
\* standalone word; without a marker the result is empty.
C17_LayoutsExactlyTheMarkedTypes ==
  Applied("extractLayouts") =>
    LET marks == UNION {LayoutMarks[arg.a[i]] : i \in 1..Len(arg.a)}
    IN  out.value =
          PickAt(AllLayouts, {k \in 1..3 : AllLayouts[k].type[1] \in marks}, 1)

\* 'position:absolute_' (declaration without a space, no standalone word),
\* 'flexx' and '_grid' (no marker), 'display: flex'.
C17_Witness ==
  /\ Applied("extractLayouts")
  /\ arg.a \in {<<8, 5, 1>>, <<8, 7, 1>>}
  /\ Len(out.value) = 2
  /\ out.value[1].type = <<"Flexbox">>
  /\ out.value[2].type = <<"Absolute">>

\* C18: normalizeProjectId removes one leading 'projects/' and returns every
\* other string unchanged; a second 'projects/' after the first is kept.
C18_NormalizeRemovesOnePrefix ==
  Applied("normalizeProjectId") =>
    LET id == IdText(arg.a)
    IN  IF Len(id) >= 2 /\ id[1] = "projects" /\ id[2] = "/"
        THEN out.value = SubSeq(id, 3, Len(id))
        ELSE out.value = id

\* 'projects/projects/' gives 'projects/'.
C18_Witness ==
  /\ Applied("normalizeProjectId")
  /\ IdText(arg.a) = <<"projects", "/", "projects", "/">>
  /\ out.value = <<"projects", "/">>

\* The Google Fonts entries of a sequence of families.
GoogleFontsOf(families) ==
  FirstOfEachFamily(FontsOfUsage(families, "Google Fonts"))

\* C19 as stated: the family of a link is the portion of the family value
\* before the first ':', then URL-decoded, then '+' replaced by a space and
\* trimmed.
C19_GoogleFamilySplitThenDecode ==
  (Applied("extractTailwindFonts") /\ arg.a = <<>>) =>
    LET raws == Held(FontLinkValues, arg.b)
    IN  out.value =
          GoogleFontsOf(
            [k \in 1..Len(raws) |->
               trim(ReplaceSym(
                 decodeURIComponent(SplitFirst(raws[k], ":")).val, "+", " "))])

\* C19 as the code has it: the family value is URL-decoded first, and the
\* portion before the first ':' of the decoded value is taken.
C19_GoogleFamilyDecodeThenSplit ==
  (Applied("extractTailwindFonts") /\ arg.a = <<>>) =>
    LET raws == Held(FontLinkValues, arg.b)
    IN  out.value =
          GoogleFontsOf(
            [k \in 1..Len(raws) |->
               trim(ReplaceSym(
                 SplitFirst(decodeURIComponent(raws[k]).val, ":"), "+", " "))])

\* 'family=Ab:4' gives 'Ab' and 'family=x%3Ab' gives 'x'.
C19_Witness ==
  /\ Applied("extractTailwindFonts")
  /\ arg.a = <<>>
  /\ arg.b = <<1, 3>>
  /\ Len(out.value) = 2
  /\ out.value[1].family = <<"A", "b">>
  /\ out.value[2].family = <<"x">>


(***************************************************************************)
(* Properties of the tool handlers (SpecTools).                            *)
(***************************************************************************)

\* The handler of the invoked tool has returned.
Handled == tpc = "done"

\* The client calls that rejected, as positions of the log.
FailedCalls == {i \in 1..Len(log) : log[i].ph = "fail"}

\* The client calls that rejected, without the optional code download of
\* generate-design.
FailedRequiredCalls == {i \in FailedCalls : log[i].op # "downloadFile"}

\* The message of the first of the rejections I.
FirstMessage(I) == log[CHOOSE i \in I : \A j \in I : i <= j].val

\* The result is the error result of message m.
IsErrorResult(m) ==
  /\ tres.isError
  /\ tres.text.type = "error"
  /\ tres.text.data.message = m

\* The handler never rejects, and resolves with a text item whose JSON has
\* a `type` and a `data`.
ResolvesWithTypeAndData ==
  /\ tres.settled # "rejected"
  /\ Handled =>
       /\ tres.settled = "resolved"
       /\ DOMAIN tres.text = {"type", "data"}
       /\ tres.text.type # "none"

\* The type of the result of each tool when nothing fails.
ResultType ==
  [n \in ToolNames |->
     CASE n = "list-projects" -> "list_projects"
       [] n = "list-screens" -> "list_screens"
       [] n = "design-viewer" -> "design_viewer"
       [] n = "generate-design" -> "generate_design"
       [] n = "extract-design-context" -> "design_context"
       [] n = "create-project" -> "create_project"]

CallsOf(op) == {i \in 1..Len(log) : log[i].op = op /\ log[i].ph = "call"}

\* The id of a project: its name without a leading 'projects/'.
IdOfProject(project) ==
  IF Len(project.name) >= 2 /\ project.name[1] = "projects"
     /\ project.name[2] = "/"
  THEN SubSeq(project.name, 3, Len(project.name))
  ELSE project.name

\* Exactly one createProject call; every generateScreenFromText call comes
\* after createProject has resolved and uses the id of the new project.
OneCreationThenGeneration ==
  /\ Cardinality(CallsOf("createProject")) = 1
  /\ \A g \in CallsOf("generateScreenFromText") :
       \E k \in 1..(g - 1) :
         /\ log[k].op = "createProject"
         /\ log[k].ph = "ok"
         /\ log[g].val.projectId = IdOfProject(log[k].val)

\* No project is created; the generation uses the given id.
NoCreation ==
  /\ CallsOf("createProject") = {}
  /\ \A g \in CallsOf("generateScreenFromText") :
       log[g].val.projectId = tool.args.projectId[1]

\* When createProject fails, generation is never requested and an error
\* result is returned.
CreationFailureStops ==
  (\E i \in FailedCalls : log[i].op = "createProject") =>
    /\ CallsOf("generateScreenFromText") = {}
    /\ Handled
    /\ IsErrorResult(FirstMessage(FailedCalls))

\* C12 as stated: generate-design without a projectId makes exactly one
\* createProject call, which completes before generateScreenFromText is
\* called with the id of the new project; with a projectId no project is
\* created; when createProject fails generation is never requested and an
\* error result is returned.
C12_CreatesProjectIffNoProjectId ==
  tool.name = "generate-design" =>
    /\ IF tool.args.projectId = None
       THEN OneCreationThenGeneration
       ELSE NoCreation
    /\ CreationFailureStops

\* C12 as the code has it: an empty-string projectId counts as no projectId.
C12_CreatesProjectIffNoOrEmptyProjectId ==
  tool.name = "generate-design" =>
    /\ IF tool.args.projectId = None \/ tool.args.projectId = Some(<<>>)
       THEN OneCreationThenGeneration
       ELSE NoCreation
    /\ CreationFailureStops

\* Without a projectId: createProject is called and resolves, then the
\* generation is requested for project 9 and the handler returns its result.
C12_Witness ==
  /\ tool.name = "generate-design"
  /\ tool.args.projectId = None
  /\ Handled
  /\ ~tres.isError
  /\ Len(log) >= 4
  /\ log[1].op = "createProject" /\ log[1].ph = "call"
  /\ log[2].op = "createProject" /\ log[2].ph = "ok"
  /\ log[2].val.name = <<"projects", "/", "9">>
  /\ log[3].op = "generateScreenFromText" /\ log[3].ph = "call"
  /\ log[3].val.projectId = <<"9">>


(***************************************************************************)
(* Properties of extractDesignContext stated with what the fragments of    *)
(* the files hold (Spec, SpecTwo).                                         *)
(***************************************************************************)

\* The color tokens of the fragments of CssFrags, and of the <style> of the
\* fragments of HtmlFrags.
CssColorTokens ==
  << << <<"#", "a", "b", "0">> >>, << <<"#", "A", "B", "0">> >>, <<>>, <<>>,
     <<>> >>
StyleColorTokens ==
  << << <<"#", "1", "2", "3">> >>, <<>>, <<>>, <<>>, <<>> >>

\* The font families the fragments of CssFrags declare.
CssFamilies ==
  << <<>>, <<>>, <<>>, << <<"A", "b">> >>, << <<"a", "b">> >> >>

\* Fragment n is among ids.  Fragment 2 of HtmlFrags is the Tailwind config
\* and fragment 3 the Google Fonts link of a valid family ('a+B+x:4').
HasFrag(ids, n) == \E i \in 1..Len(ids) : ids[i] = n

\* The plain-CSS colors of call c: the distinct tokens of its CSS file and
\* of its inline styles, named color-1, color-2, ...
PlainColorsOf(c) ==
  LET tokens == Held(CssColorTokens, css[c]) \o Held(StyleColorTokens, html[c])
      distinct == FirstOfEach(tokens, tokens)
  IN  [i \in 1..Len(distinct) |->
         [name |-> <<"color-", Digits[i]>>, hex |-> distinct[i],
          usage |-> "Extracted from CSS"]]

\* The Tailwind colors of call c: the config holds primary: '#Ab0' and
\* main: '#aB0'.
TailwindColorsOf(c) ==
  IF HasFrag(html[c], 2)
  THEN <<[name |-> <<"primary">>, hex |-> <<"#", "A", "b", "0">>,
          usage |-> "Tailwind theme"]>>
  ELSE <<>>

\* The plain-CSS fonts of call c.
PlainFontsOf(c) ==
  LET families == Held(CssFamilies, css[c])
      distinct == FirstOfEach(families, families)
  IN  [i \in 1..Len(distinct) |->
         [family |-> distinct[i], weight |-> <<"4", "0", "0">>,
          size |-> <<"1", "6", "px">>, usage |-> "Extracted from CSS"]]

\* The Tailwind and Google Fonts fonts of call c: the config holds
\* fontFamily: ['Ab'].
TailwindFontsOf(c) ==
  IF HasFrag(html[c], 2)
  THEN FontsOfUsage(<< <<"A", "b">> >>, "Tailwind theme")
       \o (IF HasFrag(html[c], 3)
           THEN FontsOfUsage(<< <<"a", " ", "B", " ", "x">> >>, "Google Fonts")
           ELSE <<>>)
  ELSE <<>>

\* C21: before the theme merge, colors (and likewise fonts) is all plain-CSS
\* entries in their order followed by all Tailwind entries in their order;
\* no dedup across the two sources: a color found by both passes appears
\* twice, as color-N and under its Tailwind key.
C21_PlainThenTailwindNoCrossDedup ==
  \A c \in Calls :
    Returned(c) =>
      /\ extracted[c].colors = PlainColorsOf(c) \o TailwindColorsOf(c)
      /\ extracted[c].fonts = PlainFontsOf(c) \o TailwindFontsOf(c)

\* The CSS file has #ab0 and the Tailwind config has primary: '#Ab0': the
\* color is there twice; so is the family Ab ... of the config, after a
\* plain-CSS color.
C21_Witness ==
  \E c \in Calls :
    /\ Returned(c)
    /\ css[c] = <<1>>
    /\ html[c] = <<2>>
    /\ Len(extracted[c].colors) = 2
    /\ extracted[c].colors[1].name = <<"color-", "1">>
    /\ extracted[c].colors[2].name = <<"primary">>
    /\ toLowerCase(extracted[c].colors[1].hex)
         = toLowerCase(extracted[c].colors[2].hex)

\* The ways downloadFile resolves: with the body, or with "".
Resolutions == {"ok", "fetch_rejects", "status_not_ok"}

\* Both downloads of call c have finished, each with a file of the service
\* or with the empty string.
DownloadsJoined(c) ==
  /\ IF urls[c].html
     THEN /\ dl[c].html \in Resolutions
          /\ IF dl[c].html = "ok" THEN html[c] \in srv.htmls ELSE html[c] = <<>>
     ELSE html[c] = <<>>
  /\ IF urls[c].css
     THEN /\ dl[c].css \in Resolutions
          /\ IF dl[c].css = "ok" THEN css[c] \in srv.csss ELSE css[c] = <<>>
     ELSE css[c] = <<>>

\* C22: the returned DesignContext depends only on the contents the screen,
\* HTML and CSS fetches delivered, whatever the order in which the fetches
\* of the calls complete; the extraction starts only after both downloads
\* have finished, each with its content or with the empty string.
C22_ExtractionAfterJoinOfDeliveredContents ==
  \A c \in Calls :
    /\ (pc[c] \in {"extract", "done"} \/ extracted[c] # EmptyContext)
         => DownloadsJoined(c)
    /\ Returned(c) =>
         /\ extracted[c].colors = PlainColorsOf(c) \o TailwindColorsOf(c)
         /\ extracted[c].spacing # <<>>
              <=> (HasFrag(css[c], 3) \/ HasFrag(html[c], 1))
         /\ result[c] = MergeTheme(extracted[c], screen[c])

\* Two calls for the same screen: the HTML download of one failed and that
\* of the other did not, and their contexts differ.
C22_Witness ==
  /\ Returned("a") /\ Returned("b")
  /\ dl["a"].html \in {"fetch_rejects", "status_not_ok"}
  /\ dl["b"].html = "ok"
  /\ html["a"] = <<>> /\ html["b"] # <<>>
  /\ result["a"] # result["b"]

\* C23: within one fetchScreenCode call the HTML URL and the CSS URL are
\* each requested at most once; a failed download is not attempted again
\* and its empty string stays.
C23_EachUrlRequestedAtMostOnce ==
  \A c \in Calls :
    /\ reqs[c].html <= 1
    /\ reqs[c].css <= 1
    /\ reqs[c].html = (IF dl[c].html = "none" THEN 0 ELSE 1)
    /\ reqs[c].css = (IF dl[c].css = "none" THEN 0 ELSE 1)
    /\ dl[c].html \in {"fetch_rejects", "status_not_ok"} => html[c] = <<>>
    /\ dl[c].css \in {"fetch_rejects", "status_not_ok"} => css[c] = <<>>

\* A returned call whose HTML download failed once and whose CSS was read.
C23_Witness ==
  \E c \in Calls :
    /\ Returned(c)
    /\ dl[c].html = "status_not_ok"
    /\ reqs[c].html = 1
    /\ html[c] = <<>>
    /\ dl[c].css = "ok"
    /\ css[c] # <<>>

\* C27: a family that the HTML has in a Google Fonts link only is in the
\* returned fonts if and only if the HTML also has a Tailwind config that
\* is harvested; without one the links give no font entry.
C27_GoogleFontsOnlyWithTailwindConfig ==
  \A c \in Calls :
    Returned(c) =>
      /\ HasFrag(html[c], 3) =>
           ((\E k \in 1..Len(result[c].fonts) :
               result[c].fonts[k].family = <<"a", " ", "B", " ", "x">>)
            <=> HasFrag(html[c], 2))
      /\ ~HasFrag(html[c], 2)
           => ~HasUsage(result[c].fonts, {"Google Fonts"})

\* The HTML is a Google Fonts link and nothing else: no font is returned.
C27_Witness ==
  \E c \in Calls :
    /\ Returned(c)
    /\ html[c] = <<3>>
    /\ screen[c] = None
    /\ result[c].fonts = <<>>


\* C24: extractSpacing returns the first occurrences of the distinct
\* (property, value) pairs in document order, over margin, padding and gap
\* jointly and not grouped by property: 'gap: 8px; margin: 10px;' gives gap
\* before margin.
C24_SpacingPairsInDocumentOrder ==
  Applied("extractSpacing") =>
    LET pairs == Held(SpacingPairs, arg.a)
    IN  out.value = FirstOfEach(pairs, pairs)

\* 'gap: 8px;margin: 10px;margin:10px ;': gap, then margin once.
C24_Witness ==
  /\ Applied("extractSpacing")
  /\ arg.a = <<3, 1, 4>>
  /\ out.value = <<[name |-> <<"gap">>, value |-> <<"8", "px">>],
                   [name |-> <<"margin">>, value |-> <<"1", "0", "px">>]>>


\* C25: once generateScreenFromText has succeeded, no failure of the
\* retrieval of the image or the code makes generate-design fail: the
\* handler returns a generate_design result that is no error and carries
\* the generated screen and the prompt, with codeData at its empty default
\* when the code was not retrieved and imageData empty without a screenshot.
C25_GenerationSucceedsWhateverTheDownload ==
  (tool.name = "generate-design"
   /\ Settled("generateScreenFromText", "ok") # {}) =>
    /\ tpc \in {"downloading", "done"}
    /\ tres.settled # "rejected"
    /\ Handled =>
         /\ tres.settled = "resolved"
         /\ ~tres.isError
         /\ tres.text.type = "generate_design"
         /\ \E i \in Settled("generateScreenFromText", "ok") :
              tres.text.data.screen = log[i].val
         /\ tres.text.data.prompt = tool.args.prompt
         /\ Settled("downloadFile", "ok") = {}
              => tres.text.data.codeData = [html |-> <<>>, css |-> <<>>]
         /\ tres.text.data.screen.screenshotUrl \in {None, Some(<<>>)}
              => tres.text.data.imageData = <<>>

\* The generation succeeded and the code download rejected: the result is
\* the generated screen with empty codeData and no error.
C25_Witness ==
  /\ tool.name = "generate-design"
  /\ Handled
  /\ Settled("generateScreenFromText", "ok") # {}
  /\ Settled("downloadFile", "fail") # {}
  /\ ~tres.isError
  /\ tres.text.data.screen.name = <<"s">>
  /\ tres.text.data.codeData = [html |-> <<>>, css |-> <<>>]


(***************************************************************************)
(* design-viewer with its four client calls spelled out (SpecViewer).      *)
(* getScreen and fetchScreenImage are one request each, kept in `log`;     *)
(* fetchScreenCode is call "b", from its own getScreen on;                 *)
(* extractDesignContext is call "a".  Every request observes some version  *)
(* of the screen and every download some version of its file.              *)
(***************************************************************************)

viewerVars == <<vars, toolVars>>

InitViewer ==
  /\ srv = [themes |-> ThemesTwo, htmls |-> {<<1>>, <<2>>}, csss |-> {<<3>>}]
  /\ pc = [c \in Calls |-> IF c = "a" THEN "start" ELSE "fetchCode"]
  /\ screen = AllOf(None)
  /\ urls = AllOf([html |-> FALSE, css |-> FALSE])
  /\ html = AllOf(<<>>)
  /\ css = AllOf(<<>>)
  /\ dl = AllOf([html |-> "none", css |-> "none"])
  /\ extracted = AllOf(EmptyContext)
  /\ result = AllOf(EmptyContext)
  /\ err = AllOf("none")
  /\ reqs = AllOf([screen |-> 0, html |-> 0, css |-> 0])
  /\ NoTool
  /\ NoApp
  /\ NoPure

\* The value the client call `op` resolved with.
ResolvedWith(op) == log[CHOOSE i \in Settled(op, "ok") : TRUE].val

\* Promise.all has rejected and the catch of the handler has not run yet;
\* it runs before any other response is handled.
ViewerRejected ==
  /\ tpc = "all"
  /\ \/ \E c \in Calls : pc[c] = "rejected"
     \/ Settled("getScreen", "fail") # {}
     \/ Settled("fetchScreenImage", "fail") # {}

\* The handler is invoked and a response may be handled.
ViewerRuns == tool.name = "design-viewer" /\ ~ViewerRejected

\* stitch.getScreen(args.projectId, args.screenId) settles.
ViewerGetScreen ==
  /\ ViewerRuns
  /\ IsPending("getScreen")
  /\ \/ \E v \in srv.themes : Settles("getScreen", "ok", v)
     \/ \E m \in Failures : Settles("getScreen", "fail", m)
  /\ UNCHANGED <<tool, tpc, local, tres, vars, pureVars, appVars>>

\* stitch.fetchScreenImage(...) settles:
\* return screen.screenshot?.downloadUrl || ""
ViewerFetchScreenImage ==
  /\ ViewerRuns
  /\ IsPending("fetchScreenImage")
  /\ \/ \E v \in {<<>>, <<"u">>} : Settles("fetchScreenImage", "ok", v)
     \/ \E m \in Failures : Settles("fetchScreenImage", "fail", m)
  /\ UNCHANGED <<tool, tpc, local, tres, vars, pureVars, appVars>>

\* A step of stitch.fetchScreenCode(...).
ViewerFetchScreenCode ==
  /\ ViewerRuns
  /\ \/ FetchCodeGetScreen("b")
     \/ DownloadHtml("b")
     \/ DownloadCss("b")
  /\ UNCHANGED <<toolVars, pureVars, appVars>>

\* A step of stitch.extractDesignContext(...).
ViewerExtractDesignContext ==
  /\ ViewerRuns
  /\ Step("a")

\* The data of the design_viewer result:
\* { screen, imageData, codeData, designContext }
ViewerData ==
  [screen |-> ResolvedWith("getScreen"),
   imageData |-> ResolvedWith("fetchScreenImage"),
   codeData |-> [html |-> HtmlText(html["b"]), css |-> CssText(css["b"])],
   designContext |-> result["a"]]

\* The four calls have resolved: Promise.all resolves and the handler
\* returns the design_viewer result.
ViewerReturns ==
  /\ tool.name = "design-viewer"
  /\ tpc = "all"
  /\ Settled("getScreen", "ok") # {}
  /\ Settled("fetchScreenImage", "ok") # {}
  /\ pc["b"] = "extract"
  /\ pc["a"] = "done"
  /\ tres' = TextResult("design_viewer", ViewerData)
  /\ tpc' = "done"
  /\ UNCHANGED <<tool, local, log, vars, pureVars, appVars>>

\* The message of the rejection of Promise.all.
ViewerFailure ==
  IF Settled("getScreen", "fail") # {}
  THEN log[CHOOSE i \in Settled("getScreen", "fail") : TRUE].val
  ELSE IF Settled("fetchScreenImage", "fail") # {}
  THEN log[CHOOSE i \in Settled("fetchScreenImage", "fail") : TRUE].val
  ELSE err[CHOOSE c \in Calls : pc[c] = "rejected"]

\* catch (err) { return errorResult(err); }
ViewerFails ==
  /\ tool.name = "design-viewer"
  /\ ViewerRejected
  /\ tres' = Catch(ErrorOf(ViewerFailure))
  /\ tpc' = "done"
  /\ UNCHANGED <<tool, local, log, vars, pureVars, appVars>>

NextViewer ==
  \/ DesignViewer
  \/ ViewerGetScreen
  \/ ViewerFetchScreenImage
  \/ ViewerFetchScreenCode
  \/ ViewerExtractDesignContext
  \/ ViewerReturns
  \/ ViewerFails

SpecViewer == InitViewer /\ [][NextViewer]_viewerVars

\* C26: in every successful design-viewer result, designContext is the
\* extraction of exactly the html and css of the codeData of the same result
\* merged with the theme of the screen of the same result, although the
\* three come from separate fetches of the screen and separate downloads.
C26_ViewerContextIsOfItsOwnCodeAndScreen ==
  (tool.name = "design-viewer" /\ Handled /\ ~tres.isError) =>
    tres.text.data.designContext
      = MergeTheme(ExtractedContext(tres.text.data.codeData.html,
                                    tres.text.data.codeData.css),
                   tres.text.data.screen)

(***************************************************************************)
(* Properties of the client operations (SpecClient).                       *)
(***************************************************************************)

\* The id without its first k leading 'projects/', or without all of them
\* when it has fewer.
RECURSIVE DropPrefixes(_, _)
DropPrefixes(id, k) ==
  IF k > 0 /\ Len(id) >= 2 /\ id[1] = "projects" /\ id[2] = "/"
  THEN DropPrefixes(SubSeq(id, 3, Len(id)), k - 1)
  ELSE id

\* C28: for every client operation that takes a projectId, the
\* project id of each outgoing request is the input with exactly one leading
\* 'projects/' removed, also when one operation calls another that
\* normalizes again.
C28_RequestsCarryIdNormalizedOnce ==
  fn \in ClientOps =>
    \A i \in 1..Len(log) : log[i].val = DropPrefixes(IdText(arg.a), 1)


(***************************************************************************)
(* StitchApp, the UI component (SpecApp).  The host pushes tool inputs,    *)
(* tool results and errors; the views call server tools through callTool.  *)
(* A text is kept as what JSON.parse makes of it.                          *)
(***************************************************************************)

\* The `data` of a parsed text: absent, or an object with or without a
\* message.
NoData == <<>>
Data(message, body) == <<[message |-> message, body |-> body]>>

\* The objects the texts of tool results are the JSON of: three views, an
\* error with and without a message, an object with a type and no data.
JsonValues ==
  {[type |-> "list_projects", data |-> Data("", "projects")],
   [type |-> "list_screens", data |-> Data("", "screens")],
   [type |-> "design_context", data |-> Data("", "context")],
   [type |-> "error", data |-> Data("boom", "")],
   [type |-> "error", data |-> Data("", "")],
   [type |-> "list_screens", data |-> NoData]}

\* The texts of content items: the JSON of an object, a text that is no
\* JSON, the empty text.
Texts ==
  {[kind |-> "json", value |-> v] : v \in JsonValues}
    \cup {[kind |-> k, value |-> [type |-> "", data |-> NoData]] :
            k \in {"not json", "empty"}}

\* The content items: text items and an image item.
Items ==
  {[type |-> "text", text |-> x] : x \in Texts}
    \cup {[type |-> "image",
           text |-> [kind |-> "empty", value |-> [type |-> "", data |-> NoData]]]}

\* The most items of a content, the most calls in flight.
MaxItems == 1
MaxInFlight == 2

\* result.content: undefined (None), or an array of items.
Contents ==
  {None} \cup {Some(s) : s \in UNION {[1..n -> Items] : n \in 0..MaxItems}}

\* The tools the view of each type calls through onCallTool.
ToolsOf(type) ==
  CASE type = "list_projects" -> {"list-screens"}
    [] type = "list_screens" -> {"design-viewer", "list-projects"}
    [] OTHER -> {}

\* data.data?.message || fallback
MessageOr(data, fallback) ==
  IF data # NoData /\ data[1].message # "" THEN data[1].message ELSE fallback

\* The loop of ontoolresult over result.content from item k on; st holds
\* currentView and error as the setters called so far leave them.
RECURSIVE OnItems(_, _, _)
OnItems(items, k, st) ==
  IF k > Len(items) THEN st
  ELSE IF items[k].type = "text" /\ items[k].text.kind = "json"
  THEN IF items[k].text.value.type = "error"
       THEN [st EXCEPT !.error =
               Some(MessageOr(items[k].text.value.data,
                              "An unknown error occurred"))]
       ELSE IF items[k].text.value.type # ""
               /\ items[k].text.value.data # NoData
       THEN OnItems(items, k + 1,
                    [currentView |-> Some(items[k].text.value),
                     error |-> None])
       ELSE OnItems(items, k + 1, st)
  ELSE OnItems(items, k + 1, st)

\* createdApp.ontoolresult = async (result) => { setLoading(false); ... }
OnToolResult(content) ==
  /\ loading' = FALSE
  /\ LET st == OnItems(IF content = None THEN <<>> ELSE content[1], 1,
                       [currentView |-> currentView, error |-> error])
     IN  /\ currentView' = st.currentView
         /\ error' = st.error
  /\ UNCHANGED inflight

AppToolResult ==
  /\ \E content \in Contents : OnToolResult(content)
  /\ UNCHANGED <<vars, toolVars, pureVars>>

\* createdApp.ontoolinput = (_input) => { setLoading(true); setError(null); }
AppToolInput ==
  /\ loading' = TRUE
  /\ error' = None
  /\ UNCHANGED <<currentView, inflight>>
  /\ UNCHANGED <<vars, toolVars, pureVars>>

\* createdApp.onerror = (err) => {
\*   setError(err.message || 'An error occurred'); setLoading(false); }
AppError ==
  /\ \E message \in {"", "host failed"} :
       error' = Some(IF message # "" THEN message ELSE "An error occurred")
  /\ loading' = FALSE
  /\ UNCHANGED <<currentView, inflight>>
  /\ UNCHANGED <<vars, toolVars, pureVars>>

\* The error container is rendered: onClick={() => setError(null)}
Dismiss ==
  /\ ~loading
  /\ error # None
  /\ error' = None
  /\ UNCHANGED <<currentView, loading, inflight>>
  /\ UNCHANGED <<vars, toolVars, pureVars>>

\* The view is rendered (no spinner, no error container) and calls
\* callTool: setLoading(true); await app.callServerTool(...)
CallTool ==
  /\ ~loading
  /\ error = None
  /\ currentView # None
  /\ Len(inflight) < MaxInFlight
  /\ \E name \in ToolsOf(currentView[1].type) :
       inflight' = Append(inflight, name)
  /\ loading' = TRUE
  /\ UNCHANGED <<currentView, error>>
  /\ UNCHANGED <<vars, toolVars, pureVars>>

\* inflight without its k-th call.
Completed(k) ==
  [i \in 1..(Len(inflight) - 1) |-> IF i < k THEN inflight[i] ELSE inflight[i + 1]]

\* result.content?.find((c) => c.type === 'text'), as an array of no or one
\* item.
FirstText(content) ==
  IF content = None THEN <<>>
  ELSE LET I == {i \in 1..Len(content[1]) : content[1][i].type = "text"}
       IN  IF I = {} THEN <<>>
           ELSE <<content[1][CHOOSE i \in I : \A j \in I : i <= j]>>

\* callTool after the await, for the text item found: JSON.parse throws on
\* a text that is no JSON and the catch sets its message; an error result
\* sets error; a result with type and data goes to onNavigate, that is
\* setCurrentView.
AfterCallTool(found) ==
  IF found = <<>> \/ found[1].text.kind = "empty"
  THEN UNCHANGED <<currentView, error>>
  ELSE IF found[1].text.kind = "not json"
  THEN error' = Some("SyntaxError") /\ UNCHANGED currentView
  ELSE IF found[1].text.value.type = "error"
  THEN /\ error' = Some(MessageOr(found[1].text.value.data,
                                  "An unknown error occurred"))
       /\ UNCHANGED currentView
  ELSE IF found[1].text.value.type # "" /\ found[1].text.value.data # NoData
  THEN currentView' = Some(found[1].text.value) /\ UNCHANGED error
  ELSE UNCHANGED <<currentView, error>>

\* The k-th call in flight resolves with a result of the given content;
\* finally { setLoading(false); }
CallToolResolved(k, content) ==
  /\ k \in 1..Len(inflight)
  /\ inflight' = Completed(k)
  /\ AfterCallTool(FirstText(content))
  /\ loading' = FALSE

CallToolResolves ==
  /\ \E k \in 1..Len(inflight), content \in Contents :
       CallToolResolved(k, content)
  /\ UNCHANGED <<vars, toolVars, pureVars>>

\* The k-th call in flight rejects:
\* setError(err instanceof Error ? err.message : 'Tool call failed')
CallToolRejects ==
  /\ \E k \in 1..Len(inflight) :
       /\ inflight' = Completed(k)
       /\ \E message \in {"call failed", "Tool call failed"} :
            error' = Some(message)
  /\ loading' = FALSE
  /\ UNCHANGED currentView
  /\ UNCHANGED <<vars, toolVars, pureVars>>

\* The app is connected; nothing is shown yet.
InitApp ==
  /\ NoApp
  /\ srv = [themes |-> {}, htmls |-> {}, csss |-> {}]
  /\ InitCalls
  /\ tool = [name |-> "none", args |-> <<>>]
  /\ tpc = "idle"
  /\ local = [projectId |-> <<>>, screen |-> <<>>]
  /\ log = <<>>
  /\ tres = Unsettled
  /\ NoPure

NextApp ==
  \/ AppToolInput
  \/ AppToolResult
  \/ AppError
  \/ Dismiss
  \/ CallTool
  \/ CallToolResolves
  \/ CallToolRejects

SpecApp == InitApp /\ [][NextApp]_appVars

\* C29: whenever a callTool call of the UI is in flight, loading is true,
\* under every interleaving with the ontoolinput, ontoolresult and onerror
\* events of the host; when the last call in flight completes, loading is
\* false.
C29_LoadingWhileCallInFlight ==
  /\ [](inflight # <<>> => loading)
  /\ [][(inflight # <<>> /\ inflight' = <<>>) => ~loading']_appVars

\* The contents of an error result, as errorResult builds it: one text item,
\* the JSON of { type: 'error', data: { message } }.
ErrorContents ==
  {Some(<<[type |-> "text",
           text |-> [kind |-> "json",
                     value |-> [type |-> "error", data |-> Data("boom", "")]]]>>)}

\* C30: whenever a successful tool result replaces currentView, through
\* ontoolresult or through the response of callTool, error is null
\* afterwards; an error result sets error and leaves currentView unchanged.
C30_NewViewClearsError ==
  [][/\ currentView' # currentView => error' = None
     /\ (\E content \in ErrorContents :
           \/ OnToolResult(content)
           \/ \E k \in 1..Len(inflight) : CallToolResolved(k, content))
          => (error' = Some("boom") /\ currentView' = currentView)]_appVars

=============================================================================
